---- MODULE Spec2Model ----
(***************************************************************************)
(* Refund rules engine of the Refunds service: the versioned RuleSet store *)
(* (models/refundRulesModel.js), the Redis read-through cache in front of  *)
(* it (loadActiveRules / invalidateRulesCache), the decision evaluator and *)
(* enforcement gate (evaluateRefundRules / applyRefundRules) and the       *)
(* refund pipeline with its ledger (refundOrderByPhone, RefundStat).       *)
(***************************************************************************)
EXTENDS Integers, Sequences, FiniteSets, TLC

VARIABLES
    rulesets,   \* RefundRules collection: committed documents
    cache,      \* Redis: key (tenant) -> cached payload or NoEntry
    pub,        \* publish requests: position and transaction-local state
    deact,      \* deactivate requests
    load,       \* loadActiveRules calls
    ectx,       \* req.ruleContext handed to applyRefundRules
    eres,       \* what applyRefundRules left: status, res.locals
    epc,        \* position of the gate call
    activeRules,    \* rules of the tenant's active RuleSet, as stored
    publishedInput, \* the payload the admin published them with
    req,        \* POST /refund requests: position and request-local state
    stats,      \* RefundStat collection
    incrGuards, \* Redis: refund ids with a refund_stat:incr_guard key
    pendings,   \* PendingRefund collection
    shopRefunds,    \* refunds created at the external platform
    started     \* number of requests received so far

rulesVars == <<rulesets, cache, pub, deact, load>>
evalVars == <<ectx, eres, epc>>
refundVars == <<activeRules, publishedInput, req, stats, incrGuards, pendings,
                shopRefunds, started>>
outsideRules == <<evalVars, refundVars>>
vars == <<rulesets, cache, pub, deact, load, ectx, eres, epc, activeRules,
          publishedInput, req, stats, incrGuards, pendings, shopRefunds, started>>

-----------------------------------------------------------------------------
(* Bounds *)

\* most RefundRules documents the model ever stores
MaxDocs == 2
\* most requests the refunds router ever receives
MaxRequests == 3
\* successful refunds recorded for one customer
MaxAttempts == 27
\* most items of one bulk preview
MaxItems == 3

(* Small sets of inputs and of concurrent requests *)
NullTenant == "null"                  \* tenant: null is the platform default
Tenants == {NullTenant, "t1"}
\* tenants refund requests come from: req.tenant is always a Tenant document
ShopTenants == Tenants \ {NullTenant}
Publishers == {"pub1", "pub2"}
Deactivators == {"de1"}
Loaders == {"ld1"}
\* the normalized rule payload each publish request carries
PayloadOfRequest(p) == IF p = "pub1" THEN "P1" ELSE "P2"

NoEntry == [rules |-> "none", version |-> -1, id |-> -1]
NoDoc == [id |-> 0, tenant |-> NullTenant, version |-> 0, isActive |-> FALSE, rules |-> "none"]

-----------------------------------------------------------------------------
(* RuleSet store *)

DocsOf(docs, t) == {d \in docs : d.tenant = t}
ActiveOf(docs, t) == {d \in docs : d.tenant = t /\ d.isActive}

MaxVersion(docs, t) ==
    IF DocsOf(docs, t) = {} THEN 0
    ELSE CHOOSE v \in {d.version : d \in DocsOf(docs, t)} :
            \A d \in DocsOf(docs, t) : d.version <= v

\* findOne({tenant, isActive: true}): one matching document, or NoDoc
FindActive(docs, t) ==
    IF ActiveOf(docs, t) = {} THEN NoDoc ELSE CHOOSE d \in ActiveOf(docs, t) : TRUE

\* getActiveForTenant: tenant-specific, else platform default, else null
getActiveForTenant(docs, t) ==
    IF ActiveOf(docs, t) # {} THEN FindActive(docs, t)
    ELSE FindActive(docs, NullTenant)

\* documents another publish transaction has written and not yet committed
LockedBy(q) == IF pub[q].pc \in {"create", "commit"} THEN pub[q].deactIds ELSE {}
LockedByOthers(p) == UNION {LockedBy(q) : q \in Publishers \ {p}}
LockedDocs == UNION {LockedBy(q) : q \in Publishers}

\* an uncommitted insert of an active document for tenant t by another transaction
PendingInsert(p, t) ==
    \E q \in Publishers \ {p} : pub[q].pc = "commit" /\ pub[q].tenant = t

\* a load is in flight between its cache read and its return
InFlight(l) == load[l].pc \in {"findTenant", "findPlatform", "set"}

\* a committed store write that can change what tenant t resolves to ends the
\* "nothing changed since it started" status of the loads in flight
Touch(t) ==
    [l \in Loaders |->
        IF InFlight(l) /\ (load[l].tenant = t \/ t = NullTenant)
        THEN [load[l] EXCEPT !.fresh = FALSE] ELSE load[l]]

IdlePub == [pc |-> "idle", tenant |-> NullTenant, payload |-> "none",
            nextVersion |-> 0, snapActive |-> {}, snapCount |-> 0, deactIds |-> {}]

\* POST /rules/publish -> publishNewVersion: startTransaction, then
\* findOne({tenant}).sort({version:-1}) inside the session; the transaction
\* reads from the snapshot taken here.
PublishFindLatest(p, t) ==
    /\ pub[p].pc = "idle"
    /\ Cardinality(rulesets) < MaxDocs
    /\ pub' = [pub EXCEPT ![p] =
                [pc |-> "updateMany", tenant |-> t, payload |-> PayloadOfRequest(p),
                 nextVersion |-> MaxVersion(rulesets, t) + 1,
                 snapActive |-> {d.id : d \in ActiveOf(rulesets, t)},
                 snapCount |-> Cardinality(DocsOf(rulesets, t)),
                 deactIds |-> {}]]
    /\ UNCHANGED <<rulesets, cache, deact, load, outsideRules>>

\* a write of the transaction conflicts when a target document was changed
\* after the snapshot or is written by another open transaction
UpdateManyConflict(p) ==
    \/ \E i \in pub[p].snapActive : ~(\E d \in rulesets : d.id = i /\ d.isActive)
    \/ pub[p].snapActive \cap LockedByOthers(p) # {}

\* the same write issued without the session: applied to the collection at once
PublishUpdateManyNoSession(p) ==
    /\ pub[p].pc = "updateMany"
    /\ ~UpdateManyConflict(p)
    /\ pub' = [pub EXCEPT ![p].pc = "create", ![p].deactIds = pub[p].snapActive]
    /\ rulesets' = {IF d.id \in pub[p].snapActive THEN [d EXCEPT !.isActive = FALSE] ELSE d
                    : d \in rulesets}
    /\ UNCHANGED <<cache, deact, load, outsideRules>>

\* updateMany({tenant, isActive:true}, {$set:{isActive:false}}, {session}):
\* buffered in the transaction, invisible outside it until commit
PublishUpdateMany(p) ==
    /\ pub[p].pc = "updateMany"
    /\ ~UpdateManyConflict(p)
    /\ pub' = [pub EXCEPT ![p].pc = "create", ![p].deactIds = pub[p].snapActive]
    /\ UNCHANGED <<rulesets, cache, deact, load, outsideRules>>

\* an index on {tenant, isActive} that is not unique admits every insert
NonUniqueIndex(p) == TRUE

\* the index refusing only a committed duplicate key, without the write
\* conflict on a key written after the snapshot
DuplicateKeyOnly(p) ==
    /\ \A d \in ActiveOf(rulesets, pub[p].tenant) : d.id \in pub[p].deactIds
    /\ ~PendingInsert(p, pub[p].tenant)

\* the partial unique index {tenant:1, isActive:1} (isActive: true): the insert
\* of an active document for the tenant is refused when a committed active
\* document of the tenant remains (duplicate key), or when the key was written
\* by another transaction that is open or committed after the snapshot
\* (write conflict)
UniqueActiveIndexAdmits(p) ==
    /\ \A d \in ActiveOf(rulesets, pub[p].tenant) : d.id \in pub[p].deactIds
    /\ Cardinality(DocsOf(rulesets, pub[p].tenant)) = pub[p].snapCount
    /\ ~PendingInsert(p, pub[p].tenant)

\* model.create([{tenant, version: nextVersion, isActive: true, rules}], {session})
PublishCreate(p) ==
    /\ pub[p].pc = "create"
    /\ UniqueActiveIndexAdmits(p)
    /\ pub' = [pub EXCEPT ![p].pc = "commit"]
    /\ UNCHANGED <<rulesets, cache, deact, load, outsideRules>>

NewDoc(p) ==
    [id |-> Cardinality(rulesets) + 1, tenant |-> pub[p].tenant,
     version |-> pub[p].nextVersion, isActive |-> TRUE, rules |-> pub[p].payload]

\* session.commitTransaction(): both writes become visible together
PublishCommit(p) ==
    /\ pub[p].pc = "commit"
    /\ rulesets' = {IF d.id \in pub[p].deactIds THEN [d EXCEPT !.isActive = FALSE] ELSE d
                    : d \in rulesets} \cup {NewDoc(p)}
    /\ pub' = [pub EXCEPT ![p].pc = "invalidate", ![p].deactIds = {}]
    /\ load' = Touch(pub[p].tenant)
    /\ UNCHANGED <<cache, deact, outsideRules>>

\* catch (err): session.abortTransaction(); throw err -> publish answers 400
PublishAbort(p) ==
    /\ \/ pub[p].pc = "updateMany" /\ UpdateManyConflict(p)
       \/ pub[p].pc = "create" /\ ~UniqueActiveIndexAdmits(p)
    /\ pub' = [pub EXCEPT ![p].pc = "failed", ![p].deactIds = {}]
    /\ UNCHANGED <<rulesets, cache, deact, load, outsideRules>>

\* invalidateRulesCache(tenantId): redis.del(key); publish then answers 201
PublishInvalidate(p) ==
    /\ pub[p].pc = "invalidate"
    /\ cache' = [cache EXCEPT ![pub[p].tenant] = NoEntry]
    /\ pub' = [pub EXCEPT ![p].pc = "done"]
    /\ UNCHANGED <<rulesets, deact, load, outsideRules>>

\* the request is over (201 or 400); the client may send another
PublishReturn(p) ==
    /\ pub[p].pc \in {"done", "failed"}
    /\ pub' = [pub EXCEPT ![p] = IdlePub]
    /\ UNCHANGED <<rulesets, cache, deact, load, outsideRules>>

-----------------------------------------------------------------------------
(* POST /rules/deactivate *)

IdleDeact == [pc |-> "idle", tenant |-> NullTenant, docId |-> 0]

\* RefundRules.findOne({tenant, isActive: true}); 404 when there is none
DeactFind(d, t) ==
    /\ deact[d].pc = "idle"
    /\ deact' = [deact EXCEPT ![d] =
                  IF ActiveOf(rulesets, t) = {}
                  THEN [pc |-> "notfound", tenant |-> t, docId |-> 0]
                  ELSE [pc |-> "save", tenant |-> t, docId |-> FindActive(rulesets, t).id]]
    /\ UNCHANGED <<rulesets, cache, pub, load, outsideRules>>

\* a save that stores the document as it was found
DeactSaveUnmodified(d) ==
    /\ deact[d].pc = "save"
    /\ deact[d].docId \notin LockedDocs
    /\ rulesets' = rulesets
    /\ deact' = [deact EXCEPT ![d].pc = "invalidate"]
    /\ load' = Touch(deact[d].tenant)
    /\ UNCHANGED <<cache, pub, outsideRules>>

\* active.isActive = false; active.save(): a write outside any transaction,
\* which waits while an open transaction holds the document
DeactSave(d) ==
    /\ deact[d].pc = "save"
    /\ deact[d].docId \notin LockedDocs
    /\ rulesets' = {IF x.id = deact[d].docId THEN [x EXCEPT !.isActive = FALSE] ELSE x
                    : x \in rulesets}
    /\ deact' = [deact EXCEPT ![d].pc = "invalidate"]
    /\ load' = Touch(deact[d].tenant)
    /\ UNCHANGED <<cache, pub, outsideRules>>

\* invalidateRulesCache(tenantId), then 200
DeactInvalidate(d) ==
    /\ deact[d].pc = "invalidate"
    /\ cache' = [cache EXCEPT ![deact[d].tenant] = NoEntry]
    /\ deact' = [deact EXCEPT ![d].pc = "done"]
    /\ UNCHANGED <<rulesets, pub, load, outsideRules>>

DeactReturn(d) ==
    /\ deact[d].pc \in {"done", "notfound"}
    /\ deact' = [deact EXCEPT ![d] = IdleDeact]
    /\ UNCHANGED <<rulesets, cache, pub, load, outsideRules>>

-----------------------------------------------------------------------------
(* RuleSet cache: loadActiveRules *)

\* { rules: { mode: "observe" }, version: 0, id: null } when nothing is active
FallbackPayload == [rules |-> "observe", version |-> 0, id |-> 0]

PayloadOf(doc) ==
    IF doc = NoDoc THEN FallbackPayload
    ELSE [rules |-> doc.rules, version |-> doc.version, id |-> doc.id]

IdleLoad == [pc |-> "idle", tenant |-> NullTenant, result |-> NoEntry, fresh |-> FALSE]

\* no publish or deactivate request touching tenant t is under way
Quiet(t) ==
    /\ \A p \in Publishers : pub[p].pc \in {"idle", "done", "failed"} \/ pub[p].tenant # t
    /\ \A d \in Deactivators : deact[d].pc \in {"idle", "done", "notfound"} \/ deact[d].tenant # t

\* const cached = await redis.get(key); if (cached) return JSON.parse(cached)
LoadGet(l, t) ==
    /\ load[l].pc = "idle"
    /\ load' = [load EXCEPT ![l] =
                 IF cache[t] # NoEntry
                 THEN [pc |-> "done", tenant |-> t, result |-> cache[t], fresh |-> Quiet(t)]
                 ELSE [pc |-> "findTenant", tenant |-> t, result |-> NoEntry, fresh |-> Quiet(t)]]
    /\ UNCHANGED <<rulesets, cache, pub, deact, outsideRules>>

\* getActiveForTenant, first query: findOne({tenant: tenantId, isActive: true})
LoadFindTenant(l) ==
    /\ load[l].pc = "findTenant"
    /\ load' = [load EXCEPT ![l] =
                 IF ActiveOf(rulesets, load[l].tenant) # {}
                 THEN [@ EXCEPT !.pc = "set",
                                !.result = PayloadOf(FindActive(rulesets, load[l].tenant))]
                 ELSE [@ EXCEPT !.pc = "findPlatform"]]
    /\ UNCHANGED <<rulesets, cache, pub, deact, outsideRules>>

\* getActiveForTenant without its second query
LoadFindPlatformSkipped(l) ==
    /\ load[l].pc = "findPlatform"
    /\ load' = [load EXCEPT ![l].pc = "set", ![l].result = FallbackPayload]
    /\ UNCHANGED <<rulesets, cache, pub, deact, outsideRules>>

\* getActiveForTenant, second query: findOne({tenant: null, isActive: true})
LoadFindPlatform(l) ==
    /\ load[l].pc = "findPlatform"
    /\ load' = [load EXCEPT ![l].pc = "set",
                            ![l].result = PayloadOf(FindActive(rulesets, NullTenant))]
    /\ UNCHANGED <<rulesets, cache, pub, deact, outsideRules>>

\* await redis.set(key, JSON.stringify(payload), "EX", RULES_TTL_SEC); return payload
LoadSet(l) ==
    /\ load[l].pc = "set"
    /\ cache' = [cache EXCEPT ![load[l].tenant] = load[l].result]
    /\ load' = [load EXCEPT ![l].pc = "done"]
    /\ UNCHANGED <<rulesets, pub, deact, outsideRules>>

LoadReturn(l) ==
    /\ load[l].pc = "done"
    /\ load' = [load EXCEPT ![l] = IdleLoad]
    /\ UNCHANGED <<rulesets, cache, pub, deact, outsideRules>>

\* the entry's TTL (RULES_TTL_SEC) elapses
CacheExpire(t) ==
    /\ cache[t] # NoEntry
    /\ cache' = [cache EXCEPT ![t] = NoEntry]
    /\ UNCHANGED <<rulesets, pub, deact, load, outsideRules>>

-----------------------------------------------------------------------------
(* The RuleSet store and its cache under concurrent requests *)

RulesInit ==
    /\ rulesets = {}
    /\ cache = [t \in Tenants |-> NoEntry]
    /\ pub = [p \in Publishers |-> IdlePub]
    /\ deact = [d \in Deactivators |-> IdleDeact]
    /\ load = [l \in Loaders |-> IdleLoad]

\* no gate call under way
EvalIdle ==
    /\ ectx = <<>>
    /\ eres = <<>>
    /\ epc = "off"

\* no refund request, empty ledger
RefundIdle ==
    /\ activeRules = <<>>
    /\ publishedInput = <<>>
    /\ req = <<>>
    /\ stats = {}
    /\ incrGuards = {}
    /\ pendings = {}
    /\ shopRefunds = {}
    /\ started = 0

Init ==
    /\ RulesInit
    /\ EvalIdle
    /\ RefundIdle

Next ==
    \/ \E p \in Publishers, t \in Tenants : PublishFindLatest(p, t)
    \/ \E p \in Publishers : PublishUpdateMany(p)
    \/ \E p \in Publishers : PublishCreate(p)
    \/ \E p \in Publishers : PublishCommit(p)
    \/ \E p \in Publishers : PublishAbort(p)
    \/ \E p \in Publishers : PublishInvalidate(p)
    \/ \E p \in Publishers : PublishReturn(p)
    \/ \E d \in Deactivators, t \in Tenants : DeactFind(d, t)
    \/ \E d \in Deactivators : DeactSave(d)
    \/ \E d \in Deactivators : DeactInvalidate(d)
    \/ \E d \in Deactivators : DeactReturn(d)
    \/ \E l \in Loaders, t \in ShopTenants : LoadGet(l, t)
    \/ \E l \in Loaders : LoadFindTenant(l)
    \/ \E l \in Loaders : LoadFindPlatform(l)
    \/ \E l \in Loaders : LoadSet(l)
    \/ \E l \in Loaders : LoadReturn(l)
    \/ \E t \in ShopTenants : CacheExpire(t)

Spec == Init /\ [][Next]_vars

-----------------------------------------------------------------------------
(* Decision evaluator: evaluateRefundRules(context)                        *)

\* a number that is null or undefined (typeof x !== "number")
Null == -1

Abs(x) == IF x < 0 THEN 0 - x ELSE x

\* strings are sequences of characters
Upper == <<"A", "B", "C", "D", "E", "F", "G", "H", "I", "J", "K", "L", "M",
           "N", "O", "P", "Q", "R", "S", "T", "U", "V", "W", "X", "Y", "Z">>
Lower == <<"a", "b", "c", "d", "e", "f", "g", "h", "i", "j", "k", "l", "m",
           "n", "o", "p", "q", "r", "s", "t", "u", "v", "w", "x", "y", "z">>
Digits == {"0", "1", "2", "3", "4", "5", "6", "7", "8", "9"}
\* .toLowerCase()
LowerOf(c) ==
    IF \E i \in DOMAIN Upper : Upper[i] = c
    THEN Lower[CHOOSE i \in DOMAIN Upper : Upper[i] = c]
    ELSE c
\* [a-z0-9]
Alnum == {Lower[i] : i \in DOMAIN Lower} \cup Digits

RECURSIVE Squeeze(_, _)
\* .replace(/[^a-z0-9]+/g, " "): every run of other characters becomes one space
Squeeze(seq, out) ==
    IF seq = <<>> THEN out
    ELSE IF Head(seq) \in Alnum THEN Squeeze(Tail(seq), Append(out, Head(seq)))
    ELSE IF out # <<>> /\ out[Len(out)] = " " THEN Squeeze(Tail(seq), out)
    ELSE Squeeze(Tail(seq), Append(out, " "))

\* .trim()
Trim(seq) ==
    LET a == IF seq # <<>> /\ Head(seq) = " " THEN Tail(seq) ELSE seq
    IN  IF a # <<>> /\ a[Len(a)] = " " THEN SubSeq(a, 1, Len(a) - 1) ELSE a

\* normalizePm: lowercase, non-alphanumerics to single spaces, trimmed
normalizePm(seq) == Trim(Squeeze([i \in 1..Len(seq) |-> LowerOf(seq[i])], <<>>))

\* String.prototype.includes
Includes(hay, needle) ==
    \E i \in 0..(Len(hay) - Len(needle)) : SubSeq(hay, i + 1, i + Len(needle)) = needle

DefaultCashbackThreshold == 39900

NoOrder == <<"null">>   \* context.order is null

StartDecision == [outcome |-> "ALLOW", reason |-> "default", matched |-> <<>>, limits |-> {}]

Deny(st, name) == [st EXCEPT !.outcome = "DENY", !.reason = name, !.matched = Append(@, name)]

\* 0) cashback deny rule
CashbackRule(ctx, st) ==
    IF st.outcome # "DENY" /\ ctx.meta.totalSpentCreditsRaw # Null
    THEN LET threshold == IF ctx.rules.cashbackSpentThreshold # Null
                          THEN ctx.rules.cashbackSpentThreshold
                          ELSE DefaultCashbackThreshold
             s == [st EXCEPT !.limits = @ \cup {"cashbackSpentThreshold"}]
         IN  IF Abs(ctx.meta.totalSpentCreditsRaw) >= threshold
             THEN Deny(s, "cashbackSpentThreshold") ELSE s
    ELSE st

\* A) lifetime refund count
LifetimeRule(ctx, st) ==
    IF st.outcome # "DENY" /\ ctx.rules.maxLifetimeRefundCount # Null
       /\ ctx.rules.maxLifetimeRefundCount >= 0 /\ ctx.meta.lifetimeRefundCount # Null
    THEN LET projected == ctx.meta.lifetimeRefundCount + 1
             s == [st EXCEPT !.limits = @ \cup {"maxLifetimeRefundCount"}]
         IN  IF projected > ctx.rules.maxLifetimeRefundCount
             THEN Deny(s, "maxLifetimeRefundCount") ELSE s
    ELSE st

\* B) refund window after delivery
WindowRule(ctx, st) ==
    IF st.outcome # "DENY" /\ ctx.rules.refundWindowDays # Null
       /\ ctx.rules.refundWindowDays >= 0 /\ ctx.meta.daysSinceDelivery # Null
    THEN LET s == [st EXCEPT !.limits = @ \cup {"refundWindowDays"}]
         IN  IF ctx.meta.daysSinceDelivery > ctx.rules.refundWindowDays
             THEN Deny(s, "refundWindowDays") ELSE s
    ELSE st

\* an already-refunded predicate that is skipped after an earlier denial
AlreadyRefundedRuleGuarded(ctx, st) ==
    IF st.outcome # "DENY" /\ ctx.rules.blockIfAlreadyRefunded
       /\ ctx.meta.targetOrderAlreadyRefunded
    THEN Deny(st, "blockIfAlreadyRefunded") ELSE st

\* 1) already refunded? (no outcome guard, no limits entry)
AlreadyRefundedRule(ctx, st) ==
    IF ctx.rules.blockIfAlreadyRefunded /\ ctx.meta.targetOrderAlreadyRefunded
    THEN Deny(st, "blockIfAlreadyRefunded") ELSE st

isPartial(ctx) == ctx.partial
bypass(ctx) == ctx.rules.bypassPercentCapForPartials # "false"

\* a percent cap that is applied to partial refunds as well
PercentRuleNoBypass(ctx, st) ==
    IF st.outcome # "DENY"
       /\ ctx.requestedPercent # Null /\ ctx.rules.maxRefundPercent # Null
    THEN LET s == [st EXCEPT !.limits = @ \cup {"maxRefundPercent"}]
         IN  IF ctx.requestedPercent > ctx.rules.maxRefundPercent
             THEN Deny(s, "maxRefundPercent") ELSE s
    ELSE st

\* 2) percent cap
PercentRule(ctx, st) ==
    IF ~(isPartial(ctx) /\ bypass(ctx)) /\ st.outcome # "DENY"
       /\ ctx.requestedPercent # Null /\ ctx.rules.maxRefundPercent # Null
    THEN LET s == [st EXCEPT !.limits = @ \cup {"maxRefundPercent"}]
         IN  IF ctx.requestedPercent > ctx.rules.maxRefundPercent
             THEN Deny(s, "maxRefundPercent") ELSE s
    ELSE st

\* 3) daily attempt cap
DailyRule(ctx, st) ==
    IF st.outcome # "DENY" /\ ctx.rules.maxRefundsPerDay # Null
       /\ ctx.rules.maxRefundsPerDay >= 0
       /\ ctx.meta.attemptsToday >= ctx.rules.maxRefundsPerDay
    THEN Deny(st, "maxRefundsPerDay") ELSE st

\* 4) payment method whitelist
PaymentRule(ctx, st) ==
    IF st.outcome # "DENY" /\ ctx.order # NoOrder /\ ctx.rules.allowPaymentMethods # {}
    THEN LET pm == normalizePm(ctx.order)
             allowList == {normalizePm(x) : x \in ctx.rules.allowPaymentMethods}
             isAllowed == pm # <<>> /\ \E a \in allowList :
                              a = pm \/ Includes(pm, a) \/ Includes(a, pm)
         IN  IF ~isAllowed THEN Deny(st, "allowPaymentMethods") ELSE st
    ELSE st

\* the supervisor check without its outcome !== "DENY" guard
SupervisorRuleOverridesDeny(ctx, st) ==
    IF ctx.requestedPercent # Null /\ ctx.rules.requireSupervisorAbovePercent # Null
       /\ ctx.requestedPercent > ctx.rules.requireSupervisorAbovePercent
    THEN LET s == [st EXCEPT !.matched = Append(@, "requireSupervisorAbovePercent")]
         IN  IF "super_admin" \notin ctx.roles
             THEN [s EXCEPT !.outcome = "REQUIRE_APPROVAL",
                            !.reason = "requireSupervisorAbovePercent"]
             ELSE s
    ELSE st

\* 5) supervisor requirement
SupervisorRule(ctx, st) ==
    IF st.outcome # "DENY" /\ ctx.requestedPercent # Null
       /\ ctx.rules.requireSupervisorAbovePercent # Null
       /\ ctx.requestedPercent > ctx.rules.requireSupervisorAbovePercent
    THEN LET s == [st EXCEPT !.matched = Append(@, "requireSupervisorAbovePercent")]
         IN  IF "super_admin" \notin ctx.roles
             THEN [s EXCEPT !.outcome = "REQUIRE_APPROVAL",
                            !.reason = "requireSupervisorAbovePercent"]
             ELSE s
    ELSE st

evaluateRefundRules(ctx) ==
    SupervisorRule(ctx,
      PaymentRule(ctx,
        DailyRule(ctx,
          PercentRule(ctx,
            AlreadyRefundedRule(ctx,
              WindowRule(ctx,
                LifetimeRule(ctx,
                  CashbackRule(ctx, StartDecision))))))))

-----------------------------------------------------------------------------
(* Enforcement gate: applyRefundRules(req, res, next)                      *)

\* enforce blocks on REQUIRE_APPROVAL as on DENY
applyRefundRulesBlocksApproval(ctx) ==
    LET decision == evaluateRefundRules(ctx)
    IN  IF ctx.rules.mode = "enforce" /\ decision.outcome \in {"DENY", "REQUIRE_APPROVAL"}
        THEN [status |-> 403, ruleDecision |-> decision, requiresApproval |-> FALSE]
        ELSE [status |-> 0, ruleDecision |-> decision, requiresApproval |-> FALSE]

\* status 0: next() was called; 403: "Refund denied by policy"
applyRefundRules(ctx) ==
    LET decision == evaluateRefundRules(ctx)
        passed == [status |-> 0, ruleDecision |-> decision, requiresApproval |-> FALSE]
    IN  IF ctx.rules.mode = "observe" THEN passed
        ELSE IF ctx.rules.mode = "warn" THEN passed
        ELSE IF ctx.rules.mode = "enforce"
        THEN IF decision.outcome = "DENY"
             THEN [status |-> 403, ruleDecision |-> decision, requiresApproval |-> FALSE]
             ELSE IF decision.outcome = "REQUIRE_APPROVAL"
             THEN [passed EXCEPT !.requiresApproval = "super_admin" \notin ctx.roles]
             ELSE passed
        ELSE passed

-----------------------------------------------------------------------------
(* The gate applied to a rule context: specification SpecEval              *)

Modes == {"observe", "warn", "enforce", "audit"}

\* rule value and observed fact of each predicate: unset or unknown, inside
\* the limit, outside the limit
CashbackCases ==
    {[rule |-> Null, fact |-> Null], [rule |-> Null, fact |-> 100],
     [rule |-> Null, fact |-> 0 - DefaultCashbackThreshold], [rule |-> 50, fact |-> 100]}
LifetimeCases ==
    {[rule |-> Null, fact |-> 1], [rule |-> 1, fact |-> 0], [rule |-> 1, fact |-> 1]}
WindowCases ==
    {[rule |-> Null, fact |-> 10], [rule |-> 7, fact |-> 3], [rule |-> 7, fact |-> 10]}
AlreadyCases ==
    {[rule |-> FALSE, fact |-> TRUE], [rule |-> TRUE, fact |-> FALSE],
     [rule |-> TRUE, fact |-> TRUE]}
DailyCases ==
    {[rule |-> Null, fact |-> 2], [rule |-> 2, fact |-> 0], [rule |-> 2, fact |-> 2]}
PaymentCases ==
    {[rule |-> {<<"C", "O", "D">>}, fact |-> NoOrder],
     [rule |-> {}, fact |-> <<"u", "p", "i">>],
     [rule |-> {<<"C", "O", "D">>, <<"U", "-", "P", "_", "I">>},
      fact |-> <<"c", "a", "s", "h", " ", "o", "n", " ", "(", "c", "o", "d", ")">>],
     [rule |-> {<<"C", "O", "D">>}, fact |-> <<"u", "p", "i">>]}
\* requested percent with the two percent thresholds, the partial-refund
\* bypass and whether line items were requested
PartialCases ==
    {[rule |-> "unset", fact |-> FALSE], [rule |-> "unset", fact |-> TRUE],
     [rule |-> "true", fact |-> TRUE], [rule |-> "false", fact |-> TRUE]}
PercentCases ==
    {[max |-> 30, sup |-> 20, pct |-> Null, part |-> [rule |-> "unset", fact |-> FALSE]]}
    \cup [max : {Null, 30}, sup : {Null, 20}, pct : {20, 25, 50}, part : PartialCases]
RoleSets == {{}, {"super_admin"}}

Context(md, cb, lf, win, ar, dy, pm, pc, roles) ==
    [rules |-> [mode |-> md,
                cashbackSpentThreshold |-> cb.rule,
                maxLifetimeRefundCount |-> lf.rule,
                refundWindowDays |-> win.rule,
                blockIfAlreadyRefunded |-> ar.rule,
                bypassPercentCapForPartials |-> pc.part.rule,
                maxRefundPercent |-> pc.max,
                maxRefundsPerDay |-> dy.rule,
                allowPaymentMethods |-> pm.rule,
                requireSupervisorAbovePercent |-> pc.sup],
     roles |-> roles,
     order |-> pm.fact,
     requestedPercent |-> pc.pct,
     partial |-> pc.part.fact,
     meta |-> [totalSpentCreditsRaw |-> cb.fact,
               lifetimeRefundCount |-> lf.fact,
               daysSinceDelivery |-> win.fact,
               targetOrderAlreadyRefunded |-> ar.fact,
               attemptsToday |-> dy.fact]]

InitEval ==
    /\ RulesInit
    /\ \E md \in Modes, cb \in CashbackCases, lf \in LifetimeCases, win \in WindowCases,
          ar \in AlreadyCases, dy \in DailyCases, pm \in PaymentCases,
          pc \in PercentCases, roles \in RoleSets :
            ectx = Context(md, cb, lf, win, ar, dy, pm, pc, roles)
    /\ eres = <<>>
    /\ epc = "context"
    /\ RefundIdle

\* router: buildRefundContext has set req.ruleContext; applyRefundRules runs
ApplyRefundRules ==
    /\ epc = "context"
    /\ eres' = applyRefundRules(ectx)
    /\ epc' = "gated"
    /\ UNCHANGED <<ectx, rulesVars, refundVars>>

NextEval == ApplyRefundRules

SpecEval == InitEval /\ [][NextEval]_vars

-----------------------------------------------------------------------------
(* Refund pipeline: POST /refund = buildRefundContext, applyRefundRules,    *)
(* refundOrderByPhone, with the RefundStat ledger: specification SpecRefund *)

Requests == {"r1", "r2"}
Users == {"agent", "sup"}
\* requested amount as a percent of the order total
Percents == {10, 25, 50}
CustomerKey == "phone:1"

\* User documents: the schema has the path role, and no path roles
UserDoc(u) == [id |-> u, role |-> IF u = "sup" THEN "super_admin" ELSE "refund_agent"]
\* req.user.roles
RolesOfUser(doc) == IF "roles" \in DOMAIN doc THEN doc.roles ELSE {}

\* input.allowPaymentMethods: absent, an array of strings, or a string
NoList == [kind |-> "absent", items |-> <<>>, text |-> <<>>]
ArrayOf(items) == [kind |-> "array", items |-> items, text |-> <<>>]
StringOf(text) == [kind |-> "string", items |-> <<>>, text |-> text]

Whitespace == {" ", "\n"}
RECURSIVE TrimStart(_)
TrimStart(seq) ==
    IF seq # <<>> /\ Head(seq) \in Whitespace THEN TrimStart(Tail(seq)) ELSE seq
RECURSIVE TrimEnd(_)
TrimEnd(seq) ==
    IF seq # <<>> /\ seq[Len(seq)] \in Whitespace
    THEN TrimEnd(SubSeq(seq, 1, Len(seq) - 1)) ELSE seq
\* String.prototype.trim, on any run of whitespace
TrimWs(seq) == TrimEnd(TrimStart(seq))

RECURSIVE SplitList(_, _, _)
\* .split(/[\n,]+/): the pieces between the runs of commas and newlines,
\* an empty piece before a leading run and after a trailing one
SplitList(text, cur, inRun) ==
    IF text = <<>> THEN <<cur>>
    ELSE IF Head(text) \in {",", "\n"}
         THEN IF inRun THEN SplitList(Tail(text), <<>>, TRUE)
              ELSE <<cur>> \o SplitList(Tail(text), <<>>, TRUE)
         ELSE SplitList(Tail(text), Append(cur, Head(text)), FALSE)

\* toStrArr: an array as it is, a string with anything but whitespace split,
\* trimmed and without its empty pieces, undefined otherwise
toStrArr(v) ==
    IF v.kind = "array" THEN ArrayOf(v.items)
    ELSE IF v.kind = "string" /\ TrimWs(v.text) # <<>>
         THEN LET pieces == SplitList(v.text, <<>>, FALSE)
                  trimmed == [i \in DOMAIN pieces |-> TrimWs(pieces[i])]
              IN  ArrayOf(SelectSeq(trimmed, LAMBDA x : x # <<>>))
    ELSE NoList

Clamp(v, lo, hi) == IF v < lo THEN lo ELSE IF v > hi THEN hi ELSE v
AtLeastZero(v) == IF v < 0 THEN 0 ELSE v

\* the payloads the admin publishes
RuleInputs ==
    [mode : {"enforce", "observe"},
     maxRefundPercent : {Null},
     maxRefundsPerDay : {Null},
     allowPaymentMethods : {NoList},
     requireSupervisorAbovePercent : {20},
     bypassPercentCapForPartials : {"unset"},
     refundWindowDays : {Null},
     blockIfAlreadyRefunded : {"unset"},
     maxLifetimeRefundCount : {Null, 1},
     cashbackSpentThreshold : {Null}]

\* allow-listed, clamped copy of the input; absent fields stay absent
normalizeRules(input) ==
    [mode |-> IF input.mode \in {"observe", "warn", "enforce"} THEN input.mode ELSE "unset",
     maxRefundPercent |->
        IF input.maxRefundPercent # Null
        THEN Clamp(input.maxRefundPercent, 0, 100) ELSE Null,
     maxRefundsPerDay |->
        IF input.maxRefundsPerDay # Null THEN AtLeastZero(input.maxRefundsPerDay) ELSE Null,
     allowPaymentMethods |-> toStrArr(input.allowPaymentMethods),
     requireSupervisorAbovePercent |->
        IF input.requireSupervisorAbovePercent # Null
        THEN Clamp(input.requireSupervisorAbovePercent, 0, 100) ELSE Null,
     bypassPercentCapForPartials |-> input.bypassPercentCapForPartials,
     refundWindowDays |->
        IF input.refundWindowDays # Null THEN AtLeastZero(input.refundWindowDays) ELSE Null,
     blockIfAlreadyRefunded |-> input.blockIfAlreadyRefunded,
     maxLifetimeRefundCount |->
        IF input.maxLifetimeRefundCount # Null
        THEN AtLeastZero(input.maxLifetimeRefundCount) ELSE Null]

\* the rules subdocument as Mongoose stores it: schema paths with their
\* defaults; a key that is no path of the schema is not stored
RefundRulesPayloadSchema(out) ==
    [mode |-> IF out.mode = "unset" THEN "observe" ELSE out.mode,
     maxRefundPercent |-> IF out.maxRefundPercent = Null THEN 30 ELSE out.maxRefundPercent,
     maxRefundsPerDay |-> IF out.maxRefundsPerDay = Null THEN 2 ELSE out.maxRefundsPerDay,
     allowPaymentMethods |->
        IF out.allowPaymentMethods.kind = "absent"
        THEN {<<"c", "a", "r", "d">>, <<"u", "p", "i">>, <<"c", "o", "d">>}
        ELSE {out.allowPaymentMethods.items[i] : i \in DOMAIN out.allowPaymentMethods.items},
     requireSupervisorAbovePercent |->
        IF out.requireSupervisorAbovePercent = Null
        THEN 20 ELSE out.requireSupervisorAbovePercent,
     bypassPercentCapForPartials |->
        IF out.bypassPercentCapForPartials = "unset"
        THEN "true" ELSE out.bypassPercentCapForPartials,
     refundWindowDays |-> out.refundWindowDays,
     blockIfAlreadyRefunded |-> out.blockIfAlreadyRefunded # "false",
     maxLifetimeRefundCount |-> Null,
     cashbackSpentThreshold |-> Null]

IdleRequest ==
    [pc |-> "idle", user |-> "agent", pct |-> 0, ctx |-> <<>>, res |-> <<>>, refundId |-> 0,
     pendingId |-> 0]
\* the response sent: the request's slot holds nothing else any more
Answer(status) == [IdleRequest EXCEPT !.pc = status]
\* positions at which a slot is free: no request yet, or the HTTP status sent
Answered == {"idle", "200", "202", "400", "403", "404", "500"}

InitRefund ==
    /\ RulesInit
    /\ EvalIdle
    /\ publishedInput \in RuleInputs
    /\ activeRules = RefundRulesPayloadSchema(normalizeRules(publishedInput))
    /\ req = [r \in Requests |-> IdleRequest]
    /\ stats = {}
    /\ incrGuards = {}
    /\ pendings = {}
    /\ shopRefunds = {}
    /\ started = 0

\* POST /refund arrives: secure has set req.user and req.tenant
ReceiveRefund(r, u, pct) ==
    /\ req[r].pc \in Answered
    /\ started < MaxRequests
    /\ started' = started + 1
    /\ req' = [req EXCEPT ![r] = [IdleRequest EXCEPT !.pc = "build", !.user = u,
                                                     !.pct = pct]]
    /\ UNCHANGED <<activeRules, publishedInput, stats, incrGuards, pendings, shopRefunds,
                   rulesVars, evalVars>>

\* RefundStat.findOne({tenant, customer}).select({totalCount}): stat?.totalCount || 0
LifetimeRefundCount ==
    IF \E s \in stats : s.customer = CustomerKey
    THEN (CHOOSE s \in stats : s.customer = CustomerKey).totalCount
    ELSE 0

\* buildRefundContext: the order is an earlier, never refunded order of the
\* customer paid by upi; the cashback service is not configured
BuildRefundContext(r) ==
    /\ req[r].pc = "build"
    /\ req' = [req EXCEPT ![r].pc = "gate",
                          ![r].ctx =
                             [rules |-> activeRules,
                              roles |-> RolesOfUser(UserDoc(req[r].user)),
                              order |-> <<"u", "p", "i">>,
                              requestedPercent |-> req[r].pct,
                              partial |-> FALSE,
                              meta |-> [totalSpentCreditsRaw |-> Null,
                                        lifetimeRefundCount |-> LifetimeRefundCount,
                                        daysSinceDelivery |-> 3,
                                        targetOrderAlreadyRefunded |-> FALSE,
                                        attemptsToday |-> 0]]]
    /\ UNCHANGED <<activeRules, publishedInput, stats, incrGuards, pendings, shopRefunds,
                   started, rulesVars, evalVars>>

\* applyRefundRules on the request
GateRefund(r) ==
    /\ req[r].pc = "gate"
    /\ LET res == applyRefundRules(req[r].ctx)
       IN  req' = [req EXCEPT ![r] = IF res.status = 403 THEN Answer("403")
                                     ELSE [@ EXCEPT !.res = res, !.pc = "handler"]]
    /\ UNCHANGED <<activeRules, publishedInput, stats, incrGuards, pendings, shopRefunds,
                   started, rulesVars, evalVars>>

NeedsApproval(r) ==
    req[r].res.ruleDecision.outcome = "REQUIRE_APPROVAL" /\ req[r].res.requiresApproval

\* refundOrderByPhone: approval gate, PendingRefund.create, 202
CreatePending(r) ==
    /\ req[r].pc = "handler"
    /\ NeedsApproval(r)
    /\ pendings' = pendings \cup
          {[id |-> Cardinality(pendings) + 1, requester |-> req[r].user,
            status |-> "PENDING", outcome |-> req[r].res.ruleDecision.outcome]}
    /\ req' = [req EXCEPT ![r] = Answer("202")]
    /\ UNCHANGED <<activeRules, publishedInput, stats, incrGuards, shopRefunds, started,
                   rulesVars, evalVars>>

\* refundOrderByPhone: client.post(orders/<id>/refunds) succeeds; the
\* response carries the id of a new refund or, for a repeated call, of a
\* refund the platform already holds
ExecuteRefund(r) ==
    /\ req[r].pc = "handler"
    /\ ~NeedsApproval(r)
    /\ \E id \in 1..(Cardinality(shopRefunds) + 1) :
           /\ shopRefunds' = shopRefunds \cup {id}
           /\ req' = [req EXCEPT ![r].pc = "ledger", ![r].refundId = id]
    /\ UNCHANGED <<activeRules, publishedInput, stats, incrGuards, pendings, started,
                   rulesVars, evalVars>>

\* refundOrderByPhone: order lookup, cancellation or refund call fails
RefundFails(r) ==
    /\ req[r].pc = "handler"
    /\ ~NeedsApproval(r)
    /\ req' = [req EXCEPT ![r] = Answer("500")]
    /\ UNCHANGED <<activeRules, publishedInput, stats, incrGuards, pendings, shopRefunds,
                   started, rulesVars, evalVars>>

\* updateOne(filter, update, {upsert: true}) with the unique index on
\* (tenant, customer): the document matching the filter is updated; without
\* one a document is inserted, which the index refuses (E11000) when the
\* customer already has a row
UpsertSuccess(docs, user) ==
    LET matching == {s \in docs : s.customer = CustomerKey /\ s.user = user}
    IN  IF matching # {}
        THEN LET s == CHOOSE x \in matching : TRUE
             IN  (docs \ {s}) \cup {[s EXCEPT !.totalCount = @ + 1, !.successCount = @ + 1]}
        ELSE IF \E s \in docs : s.customer = CustomerKey
        THEN docs
        ELSE docs \cup {[customer |-> CustomerKey, user |-> user, totalCount |-> 1,
                         successCount |-> 1]}

\* the ledger update without the Redis guard
UpdateRefundStatUnguarded(r) ==
    /\ req[r].pc = "ledger"
    /\ incrGuards' = incrGuards \cup {req[r].refundId}
    /\ stats' = UpsertSuccess(stats, req[r].user)
    /\ req' = [req EXCEPT ![r] = Answer("200")]
    /\ UNCHANGED <<activeRules, publishedInput, pendings, shopRefunds, started,
                   rulesVars, evalVars>>

\* refundOrderByPhone: Redis guard SET NX on the refund id, then the ledger
\* upsert; an error of the update is logged and dropped; 200
UpdateRefundStat(r) ==
    /\ req[r].pc = "ledger"
    /\ incrGuards' = incrGuards \cup {req[r].refundId}
    /\ stats' = IF req[r].refundId \notin incrGuards
                THEN UpsertSuccess(stats, req[r].user) ELSE stats
    /\ req' = [req EXCEPT ![r] = Answer("200")]
    /\ UNCHANGED <<activeRules, publishedInput, pendings, shopRefunds, started,
                   rulesVars, evalVars>>

\* POST /refund/:pendingId/approve or /deny arrives
ReceiveResolve(r, u) ==
    /\ req[r].pc \in Answered
    /\ started < MaxRequests
    /\ started' = started + 1
    /\ req' = [req EXCEPT ![r] = [IdleRequest EXCEPT !.pc = "guard", !.user = u]]
    /\ UNCHANGED <<activeRules, publishedInput, stats, incrGuards, pendings, shopRefunds,
                   rulesVars, evalVars>>

\* requireSuperAdmin in front of the approve and deny handlers
requireSuperAdmin(r) ==
    /\ req[r].pc = "guard"
    /\ req' = [req EXCEPT ![r] =
                  IF "super_admin" \notin RolesOfUser(UserDoc(req[r].user))
                  THEN Answer("403") ELSE [@ EXCEPT !.pc = "resolve"]]
    /\ UNCHANGED <<activeRules, publishedInput, stats, incrGuards, pendings, shopRefunds,
                   started, rulesVars, evalVars>>

NextRefund ==
    \/ \E r \in Requests, u \in Users, pct \in Percents : ReceiveRefund(r, u, pct)
    \/ \E r \in Requests : BuildRefundContext(r)
    \/ \E r \in Requests : GateRefund(r)
    \/ \E r \in Requests : CreatePending(r)
    \/ \E r \in Requests : ExecuteRefund(r)
    \/ \E r \in Requests : RefundFails(r)
    \/ \E r \in Requests : UpdateRefundStat(r)
    \/ \E r \in Requests, u \in Users : ReceiveResolve(r, u)
    \/ \E r \in Requests : requireSuperAdmin(r)

SpecRefund == InitRefund /\ [][NextRefund]_vars

-----------------------------------------------------------------------------
(* Resolution of pending refunds: the handlers approvePendingRefund and    *)
(* denyPendingRefund, called for a user past the router's guard:           *)
(* specification SpecResolve                                               *)

\* the :pendingId values of the calls; the last one names no document
PendingIds == {1, 2, 3}

\* a document as PendingRefund.create stores it: status has its default
NewPending(id, u) ==
    [id |-> id, requester |-> u, status |-> "PENDING", outcome |-> "REQUIRE_APPROVAL"]

\* the values the status path accepts on validation
StatusEnum == {"PENDING", "APPROVED", "DENIED"}

\* PendingRefund.findOne({_id, tenant, status})
FindPending(docs, id, status) == {p \in docs : p.id = id /\ p.status = status}

\* pending.status = value; pending.save(): the enum validator of the path
\* refuses any other value and save throws
SaveStatus(docs, p, value) ==
    IF value \in StatusEnum THEN (docs \ {p}) \cup {[p EXCEPT !.status = value]} ELSE docs

InitResolve ==
    /\ RulesInit
    /\ EvalIdle
    /\ publishedInput \in {i \in RuleInputs : i.mode = "enforce"}
    /\ activeRules = RefundRulesPayloadSchema(normalizeRules(publishedInput))
    /\ req = [r \in Requests |-> IdleRequest]
    /\ stats = {}
    /\ incrGuards = {}
    /\ \E n \in 1..2 : \E who \in [1..n -> Users] :
          pendings = {NewPending(i, who[i]) : i \in 1..n}
    /\ shopRefunds = {}
    /\ started = 0

\* the approve handler is entered for user u and :pendingId id
CallApprove(r, u, id) ==
    /\ req[r].pc \in Answered
    /\ req' = [req EXCEPT ![r] = [IdleRequest EXCEPT !.pc = "approve", !.user = u,
                                                     !.pendingId = id]]
    /\ UNCHANGED <<activeRules, publishedInput, stats, incrGuards, pendings, shopRefunds,
                   started, rulesVars, evalVars>>

\* the deny handler is entered for user u and :pendingId id
CallDeny(r, u, id) ==
    /\ req[r].pc \in Answered
    /\ req' = [req EXCEPT ![r] = [IdleRequest EXCEPT !.pc = "deny", !.user = u,
                                                     !.pendingId = id]]
    /\ UNCHANGED <<activeRules, publishedInput, stats, incrGuards, pendings, shopRefunds,
                   started, rulesVars, evalVars>>

\* the refunds the platform holds for the order of pending record p
RefundsFor(refunds, p) == {x \in refunds : x.pendingId = p.id}

\* an approve handler that takes the record whatever its status and does not
\* ask the platform for earlier refunds of the order
approveAnyStatusUnchecked(r) ==
    /\ req[r].pc = "approve"
    /\ LET found == {p \in pendings : p.id = req[r].pendingId}
       IN  IF found = {}
           THEN /\ req' = [req EXCEPT ![r] = Answer("404")]
                /\ UNCHANGED <<pendings, shopRefunds, stats>>
           ELSE LET p == CHOOSE x \in found : TRUE
                IN  /\ shopRefunds' = shopRefunds \cup
                          {[id |-> Cardinality(shopRefunds) + 1, pendingId |-> p.id]}
                    /\ pendings' = SaveStatus(pendings, p, "approved")
                    /\ stats' = stats
                    /\ req' = [req EXCEPT ![r] = Answer("500")]
    /\ UNCHANGED <<activeRules, publishedInput, incrGuards, started, rulesVars, evalVars>>

\* approvePendingRefund: findOne with status 'pending', 404 without a
\* document; with one, 400 when hasRefunds finds a refund of the order;
\* otherwise the refund is executed, then status 'approved' is saved and the
\* ledger row of the approver gets $inc totalCount
approvePendingRefund(r) ==
    /\ req[r].pc = "approve"
    /\ LET found == FindPending(pendings, req[r].pendingId, "pending")
       IN  IF found = {}
           THEN /\ req' = [req EXCEPT ![r] = Answer("404")]
                /\ UNCHANGED <<pendings, shopRefunds, stats>>
           ELSE LET p == CHOOSE x \in found : TRUE
                    saved == "approved" \in StatusEnum
                    row == {s \in stats : s.customer = CustomerKey /\ s.user = req[r].user}
                IN  IF RefundsFor(shopRefunds, p) # {}
                    THEN /\ req' = [req EXCEPT ![r] = Answer("400")]
                         /\ UNCHANGED <<pendings, shopRefunds, stats>>
                    ELSE /\ shopRefunds' = shopRefunds \cup
                               {[id |-> Cardinality(shopRefunds) + 1, pendingId |-> p.id]}
                         /\ pendings' = SaveStatus(pendings, p, "approved")
                         /\ stats' = IF saved /\ row # {}
                                     THEN {IF s \in row THEN [s EXCEPT !.totalCount = @ + 1]
                                           ELSE s : s \in stats}
                                     ELSE stats
                         /\ req' = [req EXCEPT ![r] =
                                       Answer(IF saved THEN "200" ELSE "500")]
    /\ UNCHANGED <<activeRules, publishedInput, incrGuards, started, rulesVars, evalVars>>

\* denyPendingRefund: findOne with status 'pending', 404 without a document;
\* with one, status 'denied' is saved
denyPendingRefund(r) ==
    /\ req[r].pc = "deny"
    /\ LET found == FindPending(pendings, req[r].pendingId, "pending")
       IN  IF found = {}
           THEN /\ req' = [req EXCEPT ![r] = Answer("404")]
                /\ UNCHANGED pendings
           ELSE LET p == CHOOSE x \in found : TRUE
                IN  /\ pendings' = SaveStatus(pendings, p, "denied")
                    /\ req' = [req EXCEPT ![r] =
                                  Answer(IF "denied" \in StatusEnum THEN "200" ELSE "500")]
    /\ UNCHANGED <<activeRules, publishedInput, stats, incrGuards, shopRefunds, started,
                   rulesVars, evalVars>>

NextResolve ==
    \/ \E r \in Requests, u \in Users, id \in PendingIds : CallApprove(r, u, id)
    \/ \E r \in Requests, u \in Users, id \in PendingIds : CallDeny(r, u, id)
    \/ \E r \in Requests : approvePendingRefund(r)
    \/ \E r \in Requests : denyPendingRefund(r)

SpecResolve == InitResolve /\ [][NextResolve]_vars

-----------------------------------------------------------------------------
(* Publishing rule payloads one after the other: POST /rules/publish =     *)
(* normalizeRules, publishNewVersion, invalidateRulesCache:                *)
(* specification SpecPublish                                               *)

PublishTenant == "t1"

\* the payloads of the publish requests
PublishInputs ==
    [mode : {"enforce", "warn"},
     maxRefundPercent : {Null, 50},
     maxRefundsPerDay : {Null},
     allowPaymentMethods : {NoList},
     requireSupervisorAbovePercent : {Null, 10},
     bypassPercentCapForPartials : {"unset"},
     refundWindowDays : {Null, 7},
     blockIfAlreadyRefunded : {"unset"},
     maxLifetimeRefundCount : {Null, 1},
     cashbackSpentThreshold : {Null, 500}]

InitPublish ==
    /\ RulesInit
    /\ EvalIdle
    /\ activeRules = <<>>
    /\ publishedInput = <<>>
    /\ req = <<>>
    /\ stats = {}
    /\ incrGuards = {}
    /\ pendings = {}
    /\ shopRefunds = {}
    /\ started = 0

\* publish with no other request under way: the transaction of
\* publishNewVersion commits, then the cache key of the tenant is deleted
publish(input) ==
    /\ Cardinality(rulesets) < MaxDocs
    /\ LET t == PublishTenant
           nextVersion == MaxVersion(rulesets, t) + 1
           doc == [id |-> Cardinality(rulesets) + 1, tenant |-> t, version |-> nextVersion,
                   isActive |-> TRUE,
                   rules |-> RefundRulesPayloadSchema(normalizeRules(input))]
       IN  /\ rulesets' = {IF d.tenant = t /\ d.isActive
                           THEN [d EXCEPT !.isActive = FALSE] ELSE d : d \in rulesets}
                          \cup {doc}
           /\ cache' = [cache EXCEPT ![t] = NoEntry]
    /\ publishedInput' = input
    /\ started' = started + 1
    /\ UNCHANGED <<pub, deact, load, activeRules, req, stats, incrGuards, pendings,
                   shopRefunds, evalVars>>

NextPublish == \E input \in PublishInputs : publish(input)

SpecPublish == InitPublish /\ [][NextPublish]_vars

-----------------------------------------------------------------------------
(* buildRefundContext with failing lookups: the cache, the order, the      *)
(* refund history and today's attempts                                      *)

Builds == {"b1"}
BuildTenant == "t1"

\* Number.MAX_SAFE_INTEGER, held as the largest integer of the model
MAX_SAFE_INTEGER == 2147483647

\* { mode: "observe" }: the rules when no ruleset is active
ObserveRules ==
    [mode |-> "observe", maxRefundPercent |-> Null, maxRefundsPerDay |-> Null,
     allowPaymentMethods |-> {}, requireSupervisorAbovePercent |-> Null,
     bypassPercentCapForPartials |-> "unset", refundWindowDays |-> Null,
     blockIfAlreadyRefunded |-> FALSE, maxLifetimeRefundCount |-> Null,
     cashbackSpentThreshold |-> Null]

ObservePayload == [rules |-> ObserveRules, version |-> 0, id |-> 0]

\* the rulesets a tenant may have published before the requests arrive
BuildRuleInputs ==
    [mode : {"enforce", "observe"},
     maxRefundPercent : {Null},
     maxRefundsPerDay : {Null, 0, 5},
     allowPaymentMethods : {NoList},
     requireSupervisorAbovePercent : {Null},
     bypassPercentCapForPartials : {"unset"},
     refundWindowDays : {Null},
     blockIfAlreadyRefunded : {"unset", "false"},
     maxLifetimeRefundCount : {Null},
     cashbackSpentThreshold : {Null}]

IdleBuild ==
    [pc |-> "idle", phone |-> FALSE, orderId |-> FALSE, pct |-> 0,
     active |-> ObservePayload, customerId |-> Null, order |-> FALSE,
     cacheFailed |-> FALSE, orderFailed |-> FALSE,
     historyFailed |-> FALSE, attemptsFailed |-> FALSE,
     targetOrderAlreadyRefunded |-> FALSE, attemptsToday |-> 0]

BuildAnswered == {"idle", "400", "403", "500", "handled"}

\* one tenant with no ruleset or with one active ruleset; nothing cached
InitBuild ==
    /\ \/ rulesets = {}
       \/ \E input \in BuildRuleInputs :
             rulesets = {[id |-> 1, tenant |-> BuildTenant, version |-> 1, isActive |-> TRUE,
                          rules |-> RefundRulesPayloadSchema(normalizeRules(input))]}
    /\ cache = [t \in Tenants |-> NoEntry]
    /\ pub = [p \in Publishers |-> IdlePub]
    /\ deact = [d \in Deactivators |-> IdleDeact]
    /\ load = [l \in Loaders |-> IdleLoad]
    /\ EvalIdle
    /\ activeRules = <<>>
    /\ publishedInput = <<>>
    /\ req = [b \in Builds |-> IdleBuild]
    /\ stats = {}
    /\ incrGuards = {}
    /\ pendings = {}
    /\ shopRefunds = {}
    /\ started = 0

buildUnchanged == <<pub, deact, load, activeRules, publishedInput, stats, incrGuards,
                    pendings, shopRefunds>>

\* the request arrives with req.tenant set; without phone and orderId: 400
BuildStart(b, phone, orderId, pct) ==
    /\ req[b].pc \in BuildAnswered
    /\ started < MaxRequests
    /\ started' = started + 1
    /\ req' = [req EXCEPT ![b] =
                 [IdleBuild EXCEPT !.pc = IF ~phone /\ ~orderId THEN "400" ELSE "redisGet",
                                   !.phone = phone, !.orderId = orderId, !.pct = pct]]
    /\ UNCHANGED <<rulesets, cache, ectx, eres, epc, buildUnchanged>>

\* loadActiveRules: const cached = await redis.get(key), outside any try: a
\* rejected call leaves loadActiveRules and buildRefundContext through the
\* catch of the latter, which answers 500
BuildRedisGet(b, answers) ==
    /\ req[b].pc = "redisGet"
    /\ req' = [req EXCEPT ![b] =
                 IF ~answers THEN [@ EXCEPT !.pc = "500", !.cacheFailed = TRUE]
                 ELSE IF cache[BuildTenant].version >= 0
                 THEN [@ EXCEPT !.pc = "customer", !.active = cache[BuildTenant]]
                 ELSE [@ EXCEPT !.pc = "getActive"]]
    /\ UNCHANGED <<rulesets, cache, ectx, eres, epc, started, buildUnchanged>>

\* RefundRules.getActiveForTenant and the payload made of its answer
BuildGetActive(b) ==
    /\ req[b].pc = "getActive"
    /\ LET own == ActiveOf(rulesets, BuildTenant)
           platform == ActiveOf(rulesets, NullTenant)
           found == IF own # {} THEN own ELSE platform
       IN  req' = [req EXCEPT ![b].pc = "redisSet",
                              ![b].active =
                                 IF found = {} THEN ObservePayload
                                 ELSE LET d == CHOOSE x \in found : TRUE
                                      IN  [rules |-> d.rules, version |-> d.version,
                                           id |-> d.id]]
    /\ UNCHANGED <<rulesets, cache, ectx, eres, epc, started, buildUnchanged>>

\* await redis.set(key, JSON.stringify(payload), "EX", RULES_TTL_SEC), outside
\* any try as well
BuildRedisSet(b, answers) ==
    /\ req[b].pc = "redisSet"
    /\ IF answers
       THEN /\ cache' = [cache EXCEPT ![BuildTenant] = req[b].active]
            /\ req' = [req EXCEPT ![b].pc = "customer"]
       ELSE /\ cache' = cache
            /\ req' = [req EXCEPT ![b].pc = "500", ![b].cacheFailed = TRUE]
    /\ UNCHANGED <<rulesets, ectx, eres, epc, started, buildUnchanged>>

\* customers/search.json by phone, in a try: no customer or a failed call
\* leave customerId null
BuildCustomer(b, outcome) ==
    /\ req[b].pc = "customer"
    /\ req' = [req EXCEPT ![b].pc = "order",
                          ![b].customerId =
                             IF req[b].phone /\ outcome = "found" THEN 1 ELSE Null]
    /\ UNCHANGED <<rulesets, cache, ectx, eres, epc, started, buildUnchanged>>

\* the order: orders/<orderId>.json, else the customer's latest order, else
\* none; both calls are outside any try, a failed call ends in the catch (500);
\* an answer without an order leaves order null and the build goes on
BuildOrder(b, outcome) ==
    /\ req[b].pc = "order"
    /\ req' = [req EXCEPT ![b] =
                 IF ~req[b].orderId /\ req[b].customerId = Null
                 THEN [@ EXCEPT !.pc = "history"]
                 ELSE IF outcome = "fail"
                 THEN [@ EXCEPT !.pc = "500", !.orderFailed = TRUE]
                 ELSE IF outcome = "none"
                 THEN [@ EXCEPT !.pc = "history"]
                 ELSE [@ EXCEPT !.pc = "history", !.order = TRUE,
                                !.customerId = 1]]
    /\ UNCHANGED <<rulesets, cache, ectx, eres, epc, started, buildUnchanged>>

\* a history lookup whose failure is taken for "not refunded"
BuildHistoryFailOpen(b, outcome) ==
    /\ req[b].pc = "history"
    /\ req' = [req EXCEPT ![b] =
                 IF ~req[b].order THEN [@ EXCEPT !.pc = "attempts"]
                 ELSE IF outcome = "fail"
                 THEN [@ EXCEPT !.pc = "attempts", !.historyFailed = TRUE,
                                !.targetOrderAlreadyRefunded = FALSE]
                 ELSE [@ EXCEPT !.pc = "attempts",
                                !.targetOrderAlreadyRefunded = (outcome = "refunded")]]
    /\ UNCHANGED <<rulesets, cache, ectx, eres, epc, started, buildUnchanged>>

\* orders/<id>/refunds.json when an order was resolved, in a try whose catch
\* sets targetOrderAlreadyRefunded = true
BuildHistory(b, outcome) ==
    /\ req[b].pc = "history"
    /\ req' = [req EXCEPT ![b] =
                 IF ~req[b].order THEN [@ EXCEPT !.pc = "attempts"]
                 ELSE IF outcome = "fail"
                 THEN [@ EXCEPT !.pc = "attempts", !.historyFailed = TRUE,
                                !.targetOrderAlreadyRefunded = TRUE]
                 ELSE [@ EXCEPT !.pc = "attempts",
                                !.targetOrderAlreadyRefunded = (outcome = "refunded")]]
    /\ UNCHANGED <<rulesets, cache, ectx, eres, epc, started, buildUnchanged>>

\* today's orders of the customer and their refunds, in a try whose catch sets
\* attemptsToday = Number.MAX_SAFE_INTEGER
BuildAttempts(b, ok, count) ==
    /\ req[b].pc = "attempts"
    /\ req' = [req EXCEPT ![b] =
                 IF req[b].customerId = Null THEN [@ EXCEPT !.pc = "assemble"]
                 ELSE IF ~ok
                 THEN [@ EXCEPT !.pc = "assemble", !.attemptsFailed = TRUE,
                                !.attemptsToday = MAX_SAFE_INTEGER]
                 ELSE [@ EXCEPT !.pc = "assemble", !.attemptsToday = count]]
    /\ UNCHANGED <<rulesets, cache, ectx, eres, epc, started, buildUnchanged>>

\* req.ruleContext = {...}; next(): the order paid by upi and delivered three
\* days ago when there is one, else order: null; the cashback service is not
\* configured
BuildAssemble(b) ==
    /\ req[b].pc = "assemble"
    /\ ectx' = [rules |-> req[b].active.rules,
                roles |-> RolesOfUser(UserDoc("agent")),
                order |-> IF req[b].order THEN <<"u", "p", "i">> ELSE NoOrder,
                requestedPercent |-> IF req[b].order THEN req[b].pct ELSE Null,
                partial |-> FALSE,
                meta |-> [totalSpentCreditsRaw |-> Null,
                          lifetimeRefundCount |->
                             IF req[b].phone \/ req[b].order THEN LifetimeRefundCount ELSE 0,
                          daysSinceDelivery |-> IF req[b].order THEN 3 ELSE Null,
                          targetOrderAlreadyRefunded |-> req[b].targetOrderAlreadyRefunded,
                          attemptsToday |-> req[b].attemptsToday]]
    /\ epc' = "context"
    /\ req' = [req EXCEPT ![b].pc = "gate"]
    /\ UNCHANGED <<rulesets, cache, eres, started, buildUnchanged>>

\* applyRefundRules: the evaluator runs on req.ruleContext
BuildGate(b) ==
    /\ req[b].pc = "gate"
    /\ eres' = applyRefundRules(ectx)
    /\ epc' = "gated"
    /\ req' = [req EXCEPT ![b].pc = IF applyRefundRules(ectx).status = 403
                                    THEN "403" ELSE "handler"]
    /\ UNCHANGED <<rulesets, cache, ectx, started, buildUnchanged>>

\* refundOrderByPhone is entered
BuildHandler(b) ==
    /\ req[b].pc = "handler"
    /\ req' = [req EXCEPT ![b].pc = "handled"]
    /\ UNCHANGED <<rulesets, cache, ectx, eres, epc, started, buildUnchanged>>

NextBuild ==
    \/ \E b \in Builds, phone \in BOOLEAN, orderId \in BOOLEAN, pct \in {10, 25} :
          BuildStart(b, phone, orderId, pct)
    \/ \E b \in Builds, answers \in BOOLEAN : BuildRedisGet(b, answers)
    \/ \E b \in Builds : BuildGetActive(b)
    \/ \E b \in Builds, answers \in BOOLEAN : BuildRedisSet(b, answers)
    \/ \E b \in Builds, outcome \in {"found", "none", "fail"} : BuildCustomer(b, outcome)
    \/ \E b \in Builds, outcome \in {"found", "none", "fail"} : BuildOrder(b, outcome)
    \/ \E b \in Builds, outcome \in {"refunded", "clean", "fail"} : BuildHistory(b, outcome)
    \/ \E b \in Builds, ok \in BOOLEAN, count \in {0, 5} : BuildAttempts(b, ok, count)
    \/ \E b \in Builds : BuildAssemble(b)
    \/ \E b \in Builds : BuildGate(b)
    \/ \E b \in Builds : BuildHandler(b)

SpecBuild == InitBuild /\ [][NextBuild]_vars

-----------------------------------------------------------------------------
(* The RefundStat ledger of one customer over successive requests: the     *)
(* success upsert of refundOrderByPhone, the read of buildRefundContext    *)
(* and DELETE /refund-stats: specification SpecLedger                       *)

\* $slice: -25 of the $push on attempts
MaxEntries == 25

\* attempts after { $push: { attempts: { $each: [entry] } } } without $slice
PushAttemptUnbounded(attempts, entry) == Append(attempts, entry)

\* attempts after { $push: { attempts: { $each: [entry], $slice: -25 } } }
PushAttempt(attempts, entry) ==
    LET a == Append(attempts, entry)
    IN  IF Len(a) > MaxEntries THEN SubSeq(a, Len(a) - MaxEntries + 1, Len(a)) ELSE a

\* the row an upsert inserts: the equality fields of the filter, the schema
\* defaults, then the update
NewStat(user, at) ==
    [customer |-> CustomerKey, user |-> user, totalCount |-> 1, successCount |-> 1,
     failureCount |-> 0, retryCount |-> 0, attempts |-> PushAttempt(<<>>, at)]

\* RefundStat.updateOne({tenant, customer, user}, {$inc, $set, $push},
\* {upsert: true}) under the unique index on (tenant, customer); at is the
\* "at" of the attempt record
UpsertAttempt(docs, user, at) ==
    LET matching == {s \in docs : s.customer = CustomerKey /\ s.user = user}
    IN  IF matching # {}
        THEN LET s == CHOOSE x \in matching : TRUE
             IN  (docs \ {s}) \cup
                    {[s EXCEPT !.totalCount = @ + 1, !.successCount = @ + 1,
                               !.retryCount = 0, !.attempts = PushAttempt(@, at)]}
        ELSE IF \E s \in docs : s.customer = CustomerKey
        THEN docs
        ELSE docs \cup {NewStat(user, at)}

\* the update is applied: a row matches the filter or none exists for the customer
UpsertApplies(docs, user) ==
    \/ \E s \in docs : s.customer = CustomerKey /\ s.user = user
    \/ ~\E s \in docs : s.customer = CustomerKey

InitLedger ==
    /\ RulesInit
    /\ EvalIdle
    /\ activeRules = <<>>
    /\ publishedInput = <<>>
    /\ req = [lifetimeRefundCount |-> 0]
    /\ stats = {}
    /\ incrGuards = {}
    /\ pendings = {}
    /\ shopRefunds = {}
    /\ started = 0

\* refundOrderByPhone after the refund was executed for user: the Redis guard
\* was set by this request (canIncrement) or was there already; the attempt
\* records carry the time of their write, counted in writes
RecordSuccess(user, canIncrement) ==
    /\ started < MaxAttempts
    /\ IF canIncrement /\ UpsertApplies(stats, user)
       THEN /\ stats' = UpsertAttempt(stats, user, started + 1)
            /\ started' = started + 1
       ELSE UNCHANGED <<stats, started>>
    /\ UNCHANGED <<req, activeRules, publishedInput, incrGuards, pendings, shopRefunds,
                   rulesVars, evalVars>>

\* buildRefundContext: RefundStat.findOne({tenant, customer}).select({totalCount})
ReadLifetimeRefundCount ==
    /\ req' = [lifetimeRefundCount |-> LifetimeRefundCount]
    /\ UNCHANGED <<stats, started, activeRules, publishedInput, incrGuards, pendings,
                   shopRefunds, rulesVars, evalVars>>

\* DELETE /refund-stats by a platform_admin, scoped to the tenant:
\* RefundStat.deleteMany({tenant})
deleteRefundStats ==
    /\ stats' = {}
    /\ UNCHANGED <<req, started, activeRules, publishedInput, incrGuards, pendings,
                   shopRefunds, rulesVars, evalVars>>

NextLedger ==
    \/ \E u \in Users, canIncrement \in BOOLEAN : RecordSuccess(u, canIncrement)
    \/ ReadLifetimeRefundCount
    \/ deleteRefundStats

SpecLedger == InitLedger /\ [][NextLedger]_vars

-----------------------------------------------------------------------------
(* Bulk preview: bulkPreviewRefunds over mapWithConcurrency, whose mapper   *)
(* runs buildRefundContext through runMw and then evaluateRefundRules:      *)
(* specifications SpecBulk and SpecBulkFair                                 *)

\* maxRetries = 3, the default the bulk preview uses
maxRetries == 3

\* what the mapper does for an item: its build and evaluation succeed; its
\* evaluation may throw; its build answers an error
ItemKinds == {"ok", "evalThrows", "buildFails"}

\* the values of limit: a caller's own, and CONCURRENCY = 4 of the bulk preview
Limits == {2, 4}

\* the workers a call can create
WorkerIds == {1, 2, 3, 4}

NumWorkers(items, limit) == IF limit < Len(items) THEN limit ELSE Len(items)

IdleWorker == [pc |-> "done", idx |-> 0, attempt |-> 0]

\* the request has arrived; an empty items list is answered 400
InitBulk ==
    /\ RulesInit
    /\ EvalIdle
    /\ activeRules = <<>>
    /\ publishedInput = <<>>
    /\ \E n \in 0..MaxItems, limit \in Limits : \E items \in [1..n -> ItemKinds] :
          req = [items |-> items, limit |-> limit, idxCounter |-> 0,
                 results |-> [i \in 1..n |-> "empty"],
                 calls |-> [i \in 1..n |-> 0],
                 afterSuccess |-> [i \in 1..n |-> 0],
                 claimed |-> [i \in 1..n |-> {}],
                 workers |-> [w \in 1..NumWorkers(items, limit) |-> IdleWorker],
                 response |-> IF n = 0 THEN "400" ELSE "none"]
    /\ stats = {}
    /\ incrGuards = {}
    /\ pendings = {}
    /\ shopRefunds = {}
    /\ started = 0

bulkUnchanged == <<activeRules, publishedInput, stats, incrGuards, pendings, shopRefunds,
                   rulesVars, evalVars>>

\* the mapper is called for item idx (0-based): one more call for the item
CallMapper(q, idx) ==
    [q EXCEPT !.calls[idx + 1] = @ + 1,
              !.afterSuccess[idx + 1] = IF q.results[idx + 1] = "value" THEN @ + 1 ELSE @]

\* const idx = idxCounter++; if (idx >= items.length) break; then the first
\* attempt of the for loop calls the mapper
Claim(q, w) ==
    LET idx == q.idxCounter
        c == [q EXCEPT !.idxCounter = @ + 1]
    IN  IF idx >= Len(q.items)
        THEN [c EXCEPT !.workers[w] = [pc |-> "done", idx |-> idx, attempt |-> 0]]
        ELSE CallMapper([c EXCEPT !.workers[w] = [pc |-> "mapper", idx |-> idx, attempt |-> 1],
                                  !.claimed[idx + 1] = @ \cup {w}], idx)

RECURSIVE ClaimAll(_, _)
\* Array.from({length: Math.min(limit, items.length)}, () => worker()): each
\* worker runs up to its first await before the next one is created
ClaimAll(q, w) ==
    IF w > NumWorkers(q.items, q.limit) THEN q ELSE ClaimAll(Claim(q, w), w + 1)

\* mapWithConcurrency(items, limit, mapper) is called
StartWorkers ==
    /\ req.response = "none"
    /\ started = 0
    /\ started' = 1
    /\ req' = ClaimAll(req, 1)
    /\ UNCHANGED bulkUnchanged

\* results[idx] = await mapper(items[idx], idx); break; the worker claims
\* its next index
MapperResolves(w) ==
    /\ w \in DOMAIN req.workers
    /\ req.workers[w].pc = "mapper"
    /\ req.items[req.workers[w].idx + 1] \in {"ok", "evalThrows"}
    /\ req' = Claim([req EXCEPT !.results[req.workers[w].idx + 1] = "value"], w)
    /\ UNCHANGED <<started, bulkUnchanged>>

\* a retry loop that gives up one attempt later
MapperRejectsOneMore(w) ==
    /\ w \in DOMAIN req.workers
    /\ req.workers[w].pc = "mapper"
    /\ req.items[req.workers[w].idx + 1] = "evalThrows"
    /\ req' = IF req.workers[w].attempt = maxRetries + 1
              THEN Claim([req EXCEPT !.results[req.workers[w].idx + 1] = "error"], w)
              ELSE [req EXCEPT !.workers[w].pc = "sleep"]
    /\ UNCHANGED <<started, bulkUnchanged>>

\* the mapper rejects (evaluateRefundRules throws): on the last attempt the
\* error is the result and the worker claims its next index, otherwise
\* await sleep(100 * 2 ** (attempt - 1))
MapperRejects(w) ==
    /\ w \in DOMAIN req.workers
    /\ req.workers[w].pc = "mapper"
    /\ req.items[req.workers[w].idx + 1] = "evalThrows"
    /\ req' = IF req.workers[w].attempt = maxRetries
              THEN Claim([req EXCEPT !.results[req.workers[w].idx + 1] = "error"], w)
              ELSE [req EXCEPT !.workers[w].pc = "sleep"]
    /\ UNCHANGED <<started, bulkUnchanged>>

\* the sleep is over: attempt++ and the mapper is called again
SleepEnds(w) ==
    /\ w \in DOMAIN req.workers
    /\ req.workers[w].pc = "sleep"
    /\ req' = CallMapper([req EXCEPT !.workers[w].pc = "mapper",
                                     !.workers[w].attempt = @ + 1],
                         req.workers[w].idx)
    /\ UNCHANGED <<started, bulkUnchanged>>

\* buildRefundContext answers an error for the item: fakeRes.json throws
\* inside the try, the catch calls res.status(500).json, which throws again,
\* so the promise of the async middleware rejects. runMw has neither awaited
\* nor caught that promise and next is never called: the promise of runMw
\* stays pending, and with it the mapper and the worker
BuildRejectsUnobserved(w) ==
    /\ w \in DOMAIN req.workers
    /\ req.workers[w].pc = "mapper"
    /\ req.items[req.workers[w].idx + 1] = "buildFails"
    /\ req' = [req EXCEPT !.workers[w].pc = "pending"]
    /\ UNCHANGED <<started, bulkUnchanged>>

\* await Promise.all(workers); the results are normalized and sent with 200
ReturnResults ==
    /\ req.response = "none"
    /\ started = 1
    /\ \A w \in DOMAIN req.workers : req.workers[w].pc = "done"
    /\ req' = [req EXCEPT !.response = "200"]
    /\ UNCHANGED <<started, bulkUnchanged>>

NextBulk ==
    \/ StartWorkers
    \/ \E w \in WorkerIds : MapperResolves(w)
    \/ \E w \in WorkerIds : MapperRejects(w)
    \/ \E w \in WorkerIds : SleepEnds(w)
    \/ \E w \in WorkerIds : BuildRejectsUnobserved(w)
    \/ ReturnResults

SpecBulk == InitBulk /\ [][NextBulk]_vars

\* the event loop runs every continuation that is ready
SpecBulkFair == SpecBulk /\ WF_vars(NextBulk)

-----------------------------------------------------------------------------
(* The amount of a refund from the request to the platform: the percent    *)
(* buildRefundContext computes, the gate, and the refundPayload of          *)
(* refundOrderByPhone: specification SpecAmount                             *)

\* rulesets with a percent cap, in enforce mode
AmountRuleInputs ==
    [mode : {"enforce"},
     maxRefundPercent : {30, 50},
     maxRefundsPerDay : {Null},
     allowPaymentMethods : {NoList},
     requireSupervisorAbovePercent : {Null, 100},
     bypassPercentCapForPartials : {"unset", "false"},
     refundWindowDays : {Null},
     blockIfAlreadyRefunded : {"unset"},
     maxLifetimeRefundCount : {Null},
     cashbackSpentThreshold : {Null}]

\* req.body.amount, the sum of the amounts of req.body.lineItems (Null
\* without line items), and the order's total_price
AmountRequests ==
    [amount : {Null, 20, 50, 100}, lineSum : {Null, 20, 80}, total : {100, 200}]

InitAmount ==
    /\ RulesInit
    /\ EvalIdle
    /\ publishedInput \in AmountRuleInputs
    /\ activeRules = RefundRulesPayloadSchema(normalizeRules(publishedInput))
    /\ \E body \in AmountRequests :
          req = [pc |-> "build", amount |-> body.amount, lineSum |-> body.lineSum,
                 total |-> body.total]
    /\ stats = {}
    /\ incrGuards = {}
    /\ pendings = {}
    /\ shopRefunds = {}
    /\ started = 0

amountUnchanged == <<activeRules, publishedInput, stats, incrGuards, pendings, started,
                     rulesVars>>

\* requestedPercent = orderTotal && requestedAmount
\*                    ? (requestedAmount / orderTotal) * 100 : null
requestedPercent(total, amount) ==
    IF total # 0 /\ amount # Null /\ amount # 0 THEN (amount * 100) \div total ELSE Null

\* buildRefundContext for an order of an agent's customer, paid by upi, never
\* refunded, delivered three days ago
BuildAmountContext ==
    /\ req.pc = "build"
    /\ ectx' = [rules |-> activeRules,
                roles |-> RolesOfUser(UserDoc("agent")),
                order |-> <<"u", "p", "i">>,
                requestedPercent |-> requestedPercent(req.total, req.amount),
                partial |-> req.lineSum # Null,
                meta |-> [totalSpentCreditsRaw |-> Null,
                          lifetimeRefundCount |-> 0,
                          daysSinceDelivery |-> 3,
                          targetOrderAlreadyRefunded |-> FALSE,
                          attemptsToday |-> 0]]
    /\ epc' = "context"
    /\ req' = [req EXCEPT !.pc = "gate"]
    /\ UNCHANGED <<eres, shopRefunds, amountUnchanged>>

\* applyRefundRules
GateAmount ==
    /\ req.pc = "gate"
    /\ eres' = applyRefundRules(ectx)
    /\ epc' = "gated"
    /\ req' = [req EXCEPT !.pc = IF applyRefundRules(ectx).status = 403
                                 THEN "403" ELSE "handler"]
    /\ UNCHANGED <<ectx, shopRefunds, amountUnchanged>>

\* refundPayload.refund.transactions[0].amount: the sum of the line items'
\* amounts for a partial refund, targetOrder.total_price otherwise
refundPayloadAmount(q) == IF q.lineSum # Null THEN q.lineSum ELSE q.total

\* refundOrderByPhone: 202 when approval is required, else the refund is
\* posted to the platform with the amount of the payload
ExecuteAmount ==
    /\ req.pc = "handler"
    /\ IF eres.ruleDecision.outcome = "REQUIRE_APPROVAL" /\ eres.requiresApproval
       THEN /\ req' = [req EXCEPT !.pc = "202"]
            /\ shopRefunds' = shopRefunds
       ELSE /\ req' = [req EXCEPT !.pc = "200"]
            /\ shopRefunds' = shopRefunds \cup {[amount |-> refundPayloadAmount(req)]}
    /\ UNCHANGED <<ectx, eres, epc, amountUnchanged>>

NextAmount ==
    \/ BuildAmountContext
    \/ GateAmount
    \/ ExecuteAmount

SpecAmount == InitAmount /\ [][NextAmount]_vars

-----------------------------------------------------------------------------
(* normalizeRules on the payloads a client can send, and the subdocument   *)
(* stored from its result: specification SpecNormalize                      *)

MaxText == 3
MaxList == 2

\* the strings up to a length over an alphabet
StringsOver(chars, n) == UNION {[1..k -> chars] : k \in 0..n}

\* req.body.rules.allowPaymentMethods: absent, an array of strings, a string
ListInputs ==
    {NoList}
    \cup {ArrayOf(items) : items \in StringsOver(StringsOver({"a", " "}, 2), MaxList)}
    \cup {StringOf(text) : text \in StringsOver({"a", " ", ",", "\n"}, MaxText)}

\* req.body.rules
NormalizeInputs ==
    [mode : {"enforce", "bogus"},
     maxRefundPercent : {Null, -5, 50, 150},
     maxRefundsPerDay : {Null, -3, 3},
     allowPaymentMethods : ListInputs,
     requireSupervisorAbovePercent : {120},
     bypassPercentCapForPartials : {"unset"},
     refundWindowDays : {-7},
     blockIfAlreadyRefunded : {"false"},
     maxLifetimeRefundCount : {Null, -2},
     cashbackSpentThreshold : {500}]

InitNormalize ==
    /\ RulesInit
    /\ EvalIdle
    /\ publishedInput \in NormalizeInputs
    /\ activeRules = ObserveRules
    /\ req = [pc |-> "input", out |-> <<>>]
    /\ stats = {}
    /\ incrGuards = {}
    /\ pendings = {}
    /\ shopRefunds = {}
    /\ started = 0

normalizeUnchanged == <<publishedInput, stats, incrGuards, pendings, shopRefunds, started,
                        rulesVars, evalVars>>

\* const rules = normalizeRules(req.body.rules || {})
NormalizeInput ==
    /\ req.pc = "input"
    /\ req' = [pc |-> "normalized", out |-> normalizeRules(publishedInput)]
    /\ UNCHANGED <<activeRules, normalizeUnchanged>>

\* RefundRules.create({ ..., rules }): the subdocument of the new ruleset
StoreNormalized ==
    /\ req.pc = "normalized"
    /\ activeRules' = RefundRulesPayloadSchema(req.out)
    /\ req' = [req EXCEPT !.pc = "stored"]
    /\ UNCHANGED normalizeUnchanged

NextNormalize ==
    \/ NormalizeInput
    \/ StoreNormalized

SpecNormalize == InitNormalize /\ [][NextNormalize]_vars

-----------------------------------------------------------------------------
(* Claims about the RuleSet store and cache *)

ActiveCount(docs, t) == Cardinality(ActiveOf(docs, t))

\* C1: in every reachable state, whatever the interleaving of publishNewVersion
\* and deactivate calls, each tenantId value (the null platform default
\* included) has at most one RuleSet with isActive = true.
C1_AtMostOneActive == \A t \in Tenants : ActiveCount(rulesets, t) <= 1

\* a publish replaced an earlier active version of some tenant
C1_Witness ==
    \E t \in Tenants :
        /\ Cardinality(DocsOf(rulesets, t)) >= 2
        /\ ActiveCount(rulesets, t) = 1
        /\ \E d \in DocsOf(rulesets, t) : ~d.isActive

DeactSaveStep(t) ==
    \E d \in Deactivators :
        deact[d].pc = "save" /\ deact'[d].pc = "invalidate" /\ deact[d].tenant = t

\* C2: publishNewVersion is all-or-nothing. No step other than an explicit
\* deactivate takes a tenant that has one active ruleset to a committed state
\* with zero or two; a publish writes nothing that others can see before its
\* commit, and a publish that fails leaves the collection as it was.
C2_PublishAtomic ==
    [][ /\ \A t \in Tenants :
             (ActiveCount(rulesets, t) = 1 /\ ~DeactSaveStep(t))
                 => ActiveCount(rulesets', t) = 1
        /\ \A p \in Publishers :
             (pub[p].pc \in {"updateMany", "create"} /\ pub'[p] # pub[p])
                 => rulesets' = rulesets
      ]_vars

\* a publish lost to a concurrent publish on a tenant that had an active ruleset
C2_Witness ==
    \E p \in Publishers :
        /\ pub[p].pc = "failed"
        /\ pub[p].snapActive # {}
        /\ ActiveCount(rulesets, pub[p].tenant) = 1
        /\ Cardinality(DocsOf(rulesets, pub[p].tenant)) >= 2

\* C6: once the publish and deactivate requests for tenant T have completed
\* (commit, then cache invalidation), a rules load for T that starts afterwards,
\* with no further store write while it runs, returns the ruleset that is
\* active for T (the fallback after a deactivate).
C6_LoadAfterPublishSeesNewRules ==
    [][ \A l \in Loaders :
          ( /\ load[l].pc # "done"
            /\ load'[l].pc = "done"
            /\ load'[l].fresh
            /\ DocsOf(rulesets', load'[l].tenant) # {}
            /\ (ActiveOf(rulesets', load'[l].tenant) # {} \/ DocsOf(rulesets', NullTenant) = {}) )
          => load'[l].result = PayloadOf(getActiveForTenant(rulesets', load'[l].tenant))
      ]_vars

\* C13: every document added to the store carries the version following the
\* largest version stored for its tenant (1 for the first), and no stored
\* document disappears or changes its version, so a tenant's versions are
\* pairwise distinct and grow in commit order.
C13_VersionsStrictlyIncrease ==
    [][ /\ \A d \in rulesets' :
             (~\E e \in rulesets : e.id = d.id) =>
                d.version = MaxVersion(rulesets, d.tenant) + 1
        /\ \A e \in rulesets :
             \E d \in rulesets' : d.id = e.id /\ d.version = e.version /\ d.tenant = e.tenant
      ]_vars

\* a publish that had read the latest version before another publish
\* committed was refused, and the tenant holds versions 1 and 2
C13_Witness ==
    \E q \in Publishers :
        /\ pub[q].pc = "failed"
        /\ pub[q].snapActive = {}
        /\ {d.version : d \in DocsOf(rulesets, pub[q].tenant)} = {1, 2}
        /\ pub[q].nextVersion = 1

NumericFields ==
    {"maxRefundPercent", "maxRefundsPerDay", "requireSupervisorAbovePercent",
     "refundWindowDays", "maxLifetimeRefundCount", "cashbackSpentThreshold"}
PayloadFields ==
    NumericFields \cup {"mode", "allowPaymentMethods", "bypassPercentCapForPartials",
                        "blockIfAlreadyRefunded"}
\* the payload gives a value for the field
Given(input, f) ==
    IF f \in NumericFields THEN input[f] # Null
    ELSE IF f = "allowPaymentMethods" THEN input[f].kind # "absent"
    ELSE input[f] # "unset"

\* C14: after two publishes on a tenant without earlier versions the active
\* ruleset has version 2 and carries, for every payload field the second
\* payload gives, the value given; version 1 is inactive.
C14_SecondPublishIsActive ==
    started = 2 =>
        /\ Cardinality(ActiveOf(rulesets, PublishTenant)) = 1
        /\ \A d \in DocsOf(rulesets, PublishTenant) : d.isActive <=> d.version = 2
        /\ \A d \in ActiveOf(rulesets, PublishTenant) :
             \A f \in PayloadFields :
                Given(publishedInput, f) => d.rules[f] = publishedInput[f]

\* what a lookup for tenant t is to return in store state docs: the
\* tenant's own active ruleset, else the active platform default, else none
ExpectedActive(docs, t) ==
    IF \E d \in docs : d.tenant = t /\ d.isActive
    THEN CHOOSE d \in docs : d.tenant = t /\ d.isActive
    ELSE IF \E d \in docs : d.tenant = NullTenant /\ d.isActive
    THEN CHOOSE d \in docs : d.tenant = NullTenant /\ d.isActive
    ELSE NoDoc

\* C15: the queries of getActiveForTenant change nothing in the store; the
\* first returns the tenant's own active ruleset when there is one, the second
\* the active platform default or nothing; over an unchanged store the lookup
\* returns the tenant's own active ruleset, else the platform default, else
\* nothing.
C15_ActiveLookupFallsBack ==
    [][ \A l \in Loaders :
          (load[l].pc \in {"findTenant", "findPlatform"} /\ load'[l].pc # load[l].pc) =>
             /\ rulesets' = rulesets
             /\ (load[l].pc = "findTenant" /\ ActiveOf(rulesets, load[l].tenant) # {}) =>
                   /\ load'[l].pc = "set"
                   /\ load'[l].result = PayloadOf(ExpectedActive(rulesets, load[l].tenant))
             /\ (load[l].pc = "findTenant" /\ ActiveOf(rulesets, load[l].tenant) = {}) =>
                   load'[l].pc = "findPlatform"
             /\ load[l].pc = "findPlatform" =>
                   load'[l].result = PayloadOf(ExpectedActive(rulesets, NullTenant))
             /\ (load'[l].pc = "set" /\ load'[l].fresh) =>
                   load'[l].result = PayloadOf(ExpectedActive(rulesets, load[l].tenant))
      ]_vars

\* the tenant has a ruleset that is not active, the platform default is
\* active, and a lookup over the unchanged store has returned the default
C15_Witness ==
    \E l \in Loaders :
        /\ load[l].pc = "set"
        /\ load[l].fresh
        /\ DocsOf(rulesets, load[l].tenant) # {}
        /\ ActiveOf(rulesets, load[l].tenant) = {}
        /\ ActiveOf(rulesets, NullTenant) # {}
        /\ load[l].result = PayloadOf(FindActive(rulesets, NullTenant))

\* C16: a deactivate that found an active ruleset stores it with isActive
\* false and activates nothing; when the ruleset it found is still the tenant's
\* current one the tenant is left with no active ruleset, a lookup then gives
\* the platform default, and the request ends by deleting the tenant's cache
\* entry. A deactivate that found no active ruleset answers NotFound and
\* writes neither the store nor the cache.
C16_DeactivateLeavesNoActive ==
    [][ \A d \in Deactivators :
          /\ (deact[d].pc = "idle" /\ deact'[d].pc # "idle") =>
                /\ (deact'[d].pc = "notfound") = (ActiveOf(rulesets, deact'[d].tenant) = {})
                /\ (deact'[d].pc = "save") =>
                      \E x \in ActiveOf(rulesets, deact'[d].tenant) : x.id = deact'[d].docId
                /\ rulesets' = rulesets /\ cache' = cache
          /\ (deact[d].pc = "save" /\ deact'[d].pc # "save") =>
                /\ deact'[d].pc = "invalidate"
                /\ \A x \in rulesets' : x.id = deact[d].docId => ~x.isActive
                /\ ActiveOf(rulesets', deact[d].tenant) \subseteq ActiveOf(rulesets, deact[d].tenant)
                /\ (\A x \in ActiveOf(rulesets, deact[d].tenant) : x.id = deact[d].docId) =>
                      /\ ActiveOf(rulesets', deact[d].tenant) = {}
                      /\ ExpectedActive(rulesets', deact[d].tenant)
                            = FindActive(rulesets', NullTenant)
          /\ (deact[d].pc = "invalidate" /\ deact'[d].pc # "invalidate") =>
                /\ deact'[d].pc = "done"
                /\ cache'[deact[d].tenant] = NoEntry
                /\ rulesets' = rulesets
          /\ (deact[d].pc = "notfound" /\ deact'[d].pc # "notfound") =>
                /\ deact'[d].pc = "idle"
                /\ rulesets' = rulesets /\ cache' = cache
      ]_vars

\* a deactivate for a tenant has answered 200: the tenant keeps a ruleset that
\* is no longer active while the platform default is active
C16_Witness ==
    \E d \in Deactivators :
        /\ deact[d].pc = "done"
        /\ deact[d].tenant # NullTenant
        /\ \E x \in rulesets : x.id = deact[d].docId /\ ~x.isActive
        /\ ActiveOf(rulesets, deact[d].tenant) = {}
        /\ ActiveOf(rulesets, NullTenant) # {}

-----------------------------------------------------------------------------
(* Claims about the evaluator and the gate *)

DenyOrder ==
    <<"cashbackSpentThreshold", "maxLifetimeRefundCount", "refundWindowDays",
      "blockIfAlreadyRefunded", "maxRefundPercent", "maxRefundsPerDay",
      "allowPaymentMethods">>
DenyNames == {DenyOrder[i] : i \in DOMAIN DenyOrder}

\* the condition of each DENY predicate, taken on its own
ConditionHolds(name, ctx) ==
    CASE name = "cashbackSpentThreshold" ->
            /\ ctx.meta.totalSpentCreditsRaw # Null
            /\ Abs(ctx.meta.totalSpentCreditsRaw) >=
                   (IF ctx.rules.cashbackSpentThreshold # Null
                    THEN ctx.rules.cashbackSpentThreshold ELSE DefaultCashbackThreshold)
      [] name = "maxLifetimeRefundCount" ->
            /\ ctx.rules.maxLifetimeRefundCount # Null
            /\ ctx.meta.lifetimeRefundCount # Null
            /\ ctx.meta.lifetimeRefundCount + 1 > ctx.rules.maxLifetimeRefundCount
      [] name = "refundWindowDays" ->
            /\ ctx.rules.refundWindowDays # Null
            /\ ctx.meta.daysSinceDelivery # Null
            /\ ctx.meta.daysSinceDelivery > ctx.rules.refundWindowDays
      [] name = "blockIfAlreadyRefunded" ->
            ctx.rules.blockIfAlreadyRefunded /\ ctx.meta.targetOrderAlreadyRefunded
      [] name = "maxRefundPercent" ->
            /\ ~(ctx.partial /\ ctx.rules.bypassPercentCapForPartials # "false")
            /\ ctx.requestedPercent # Null
            /\ ctx.rules.maxRefundPercent # Null
            /\ ctx.requestedPercent > ctx.rules.maxRefundPercent
      [] name = "maxRefundsPerDay" ->
            /\ ctx.rules.maxRefundsPerDay # Null
            /\ ctx.meta.attemptsToday >= ctx.rules.maxRefundsPerDay
      [] name = "allowPaymentMethods" ->
            /\ ctx.order # NoOrder
            /\ ctx.rules.allowPaymentMethods # {}
            /\ LET pm == normalizePm(ctx.order)
               IN  ~(pm # <<>> /\ \E x \in ctx.rules.allowPaymentMethods :
                        LET a == normalizePm(x)
                        IN  Includes(pm, a) \/ Includes(a, pm))

NoDenyCondition(ctx) == \A n \in DenyNames : ~ConditionHolds(n, ctx)

FirstDeny(ctx) ==
    DenyOrder[CHOOSE i \in DOMAIN DenyOrder :
                 /\ ConditionHolds(DenyOrder[i], ctx)
                 /\ \A j \in 1..(i - 1) : ~ConditionHolds(DenyOrder[j], ctx)]

DenyMatches(decision) ==
    {i \in DOMAIN decision.matched : decision.matched[i] \in DenyNames}

\* C7: the evaluator stops at the first DENY: Decision.matched holds at most
\* one DENY predicate name, and when some DENY condition holds the reason is
\* the one of the first predicate, in the fixed order, whose condition holds.
C7_ShortCircuitOnFirstDeny ==
    epc = "gated" =>
        /\ Cardinality(DenyMatches(eres.ruleDecision)) <= 1
        /\ ~NoDenyCondition(ectx) => eres.ruleDecision.reason = FirstDeny(ectx)

SupervisorCondition(ctx) ==
    /\ ctx.requestedPercent # Null
    /\ ctx.rules.requireSupervisorAbovePercent # Null
    /\ ctx.requestedPercent > ctx.rules.requireSupervisorAbovePercent

\* C8: the outcome is REQUIRE_APPROVAL exactly when no DENY condition holds,
\* the requested percent is known and above requireSupervisorAbovePercent and
\* the roles lack super_admin; a DENY is never replaced; the same context
\* with super_admin among the roles is ALLOW.
C8_RequireApprovalExactly ==
    epc = "gated" =>
        /\ eres.ruleDecision.outcome = "REQUIRE_APPROVAL"
             <=> /\ NoDenyCondition(ectx)
                 /\ SupervisorCondition(ectx)
                 /\ "super_admin" \notin ectx.roles
        /\ ~NoDenyCondition(ectx) => eres.ruleDecision.outcome = "DENY"
        /\ eres.ruleDecision.outcome = "REQUIRE_APPROVAL" =>
             evaluateRefundRules([ectx EXCEPT !.roles = @ \cup {"super_admin"}]).outcome
                 = "ALLOW"

\* a DENY stands although the percent is above the supervisor threshold, and
\* elsewhere the supervisor requirement is the outcome
C8_Witness ==
    /\ epc = "gated"
    /\ SupervisorCondition(ectx)
    /\ "super_admin" \notin ectx.roles
    /\ ~NoDenyCondition(ectx)
    /\ eres.ruleDecision.outcome = "DENY"

-----------------------------------------------------------------------------
(* Claims about the refund pipeline and the ledger *)

IsSupervisor(u) == UserDoc(u).role = "super_admin"

\* the request in slot r takes a step
Steps(r) == req'[r] # req[r]

\* C3: a refund is executed only for a request the gate let proceed; under
\* enforce a DENY, or a REQUIRE_APPROVAL for an actor who is no supervisor, is
\* never executed and never changes the ledger; a deferred request adds
\* exactly one PendingRefund; every PendingRefund added has outcome
\* REQUIRE_APPROVAL and a requester who is no supervisor.
C3_ExecutedOnlyWhenGatePassed ==
    [][ /\ \A r \in Requests :
             /\ (req[r].pc = "handler" /\ req'[r].pc = "ledger") =>
                   /\ req[r].res.status = 0
                   /\ ~(/\ req[r].ctx.rules.mode = "enforce"
                        /\ \/ req[r].res.ruleDecision.outcome = "DENY"
                           \/ /\ req[r].res.ruleDecision.outcome = "REQUIRE_APPROVAL"
                              /\ ~IsSupervisor(req[r].user))
             /\ (req[r].pc = "gate" /\ Steps(r) /\ req'[r].pc = "403") =>
                   /\ shopRefunds' = shopRefunds
                   /\ stats' = stats
                   /\ pendings' = pendings
             /\ (req[r].pc = "handler" /\ req'[r].pc = "202") =>
                   /\ Cardinality(pendings') = Cardinality(pendings) + 1
                   /\ shopRefunds' = shopRefunds
                   /\ stats' = stats
        /\ stats' # stats => \E r \in Requests : req[r].pc = "ledger" /\ Steps(r)
        /\ \A p \in pendings' \ pendings :
             p.outcome = "REQUIRE_APPROVAL" /\ ~IsSupervisor(p.requester)
      ]_vars

\* C4: once every executed refund has been recorded, the customer has
\* exactly one ledger row and its totalCount and successCount both equal the
\* number of refunds executed (each has its own refund id), whoever the
\* acting users were.
C4_NoLostLedgerIncrement ==
    (\A r \in Requests : req[r].pc # "ledger") =>
        IF shopRefunds = {} THEN stats = {}
        ELSE /\ Cardinality(stats) = 1
             /\ \A s \in stats :
                  /\ s.totalCount = Cardinality(shopRefunds)
                  /\ s.successCount = Cardinality(shopRefunds)

\* C5: with an enforce-mode ruleset published with maxLifetimeRefundCount = N
\* the refunds executed for the customer never number more than N.
C5_LifetimeCapHolds ==
    (/\ started > 0
     /\ publishedInput.mode = "enforce"
     /\ publishedInput.maxLifetimeRefundCount # Null) =>
        Cardinality(shopRefunds) <= publishedInput.maxLifetimeRefundCount

\* C10: under enforce, a request of a user with stored role super_admin,
\* above requireSupervisorAbovePercent and with no DENY condition, leaves the
\* gate as ALLOW without the approval flag and its handler adds no
\* PendingRefund; the same user passes requireSuperAdmin.
C10_SupervisorProceeds ==
    [][ \A r \in Requests :
          /\ (/\ req[r].pc = "gate" /\ Steps(r)
              /\ IsSupervisor(req[r].user)
              /\ req[r].ctx.rules.mode = "enforce"
              /\ SupervisorCondition(req[r].ctx)
              /\ NoDenyCondition(req[r].ctx)) =>
                /\ req'[r].pc = "handler"
                /\ req'[r].res.ruleDecision.outcome = "ALLOW"
                /\ ~req'[r].res.requiresApproval
          /\ (/\ req[r].pc = "handler" /\ Steps(r)
              /\ IsSupervisor(req[r].user)
              /\ req[r].ctx.rules.mode = "enforce") =>
                pendings' = pendings
          /\ (req[r].pc = "guard" /\ Steps(r) /\ IsSupervisor(req[r].user)) =>
                req'[r].pc = "resolve"
      ]_vars

-----------------------------------------------------------------------------
(* Claims about the resolution of pending refunds *)

PendingWithId(docs, id) == {p \in docs : p.id = id}

\* C11: every PendingRefund has one of the three statuses and is PENDING when
\* created; an approve (deny) call of a supervisor on a PENDING record leaves
\* it APPROVED (DENIED); a call on an APPROVED or DENIED record is answered
\* 404 and changes nothing.
C11_StatusChangesExactlyOnce ==
    [][ /\ \A p \in pendings' : p.status \in StatusEnum
        /\ \A r \in Requests :
             (req[r].pc \in {"approve", "deny"} /\ Steps(r) /\ IsSupervisor(req[r].user)) =>
                \A p \in PendingWithId(pendings, req[r].pendingId) :
                   IF p.status = "PENDING"
                   THEN PendingWithId(pendings', p.id) =
                           {[p EXCEPT !.status = IF req[r].pc = "approve"
                                                 THEN "APPROVED" ELSE "DENIED"]}
                   ELSE req'[r].pc = "404" /\ pendings' = pendings
      ]_vars

\* the success counters of the ledger, summed over its rows
RECURSIVE SumCounts(_)
SumCounts(docs) ==
    IF docs = {} THEN 0
    ELSE LET s == CHOOSE x \in docs : TRUE
         IN  s.totalCount + s.successCount + SumCounts(docs \ {s})

C20_PartialBypassesPercentCap ==
    (epc = "gated" /\ isPartial(ectx) /\ ectx.rules.bypassPercentCapForPartials \in {"true", "unset"})
        => /\ \A i \in DOMAIN eres.ruleDecision.matched :
                 eres.ruleDecision.matched[i] # "maxRefundPercent"
           /\ eres.ruleDecision.reason # "maxRefundPercent"
           /\ "maxRefundPercent" \notin eres.ruleDecision.limits

\* a partial refund of more than the configured cap was evaluated with the
\* bypass on and was not denied
C20_Witness ==
    /\ epc = "gated"
    /\ isPartial(ectx)
    /\ ectx.rules.bypassPercentCapForPartials = "true"
    /\ ectx.rules.maxRefundPercent # Null
    /\ ectx.requestedPercent # Null
    /\ ectx.requestedPercent > ectx.rules.maxRefundPercent
    /\ eres.ruleDecision.outcome # "DENY"


-----------------------------------------------------------------------------
(* Claims about the context build *)

\* the step of build b in which a call to the cache is rejected
CacheCallFails(b) == ~req[b].cacheFailed /\ req'[b].cacheFailed

\* what the store resolves to for the tenant of the builds
StorePayload ==
    IF ActiveOf(rulesets, BuildTenant) # {}
    THEN LET d == CHOOSE x \in ActiveOf(rulesets, BuildTenant) : TRUE
         IN  [rules |-> d.rules, version |-> d.version, id |-> d.id]
    ELSE ObservePayload

\* C17: a failing cache read is a miss (the ruleset is then read from the
\* store), a failing cache write is ignored (the ruleset read from the store
\* is used), and in neither case does the build answer an error.
C17_CacheFailureIsAMiss ==
    [][ \A b \in Builds :
          CacheCallFails(b) =>
             /\ req'[b].pc # "500"
             /\ req[b].pc = "redisGet" => req'[b].pc = "getActive"
             /\ req[b].pc = "redisSet" =>
                   (req'[b].pc = "customer" /\ req'[b].active = StorePayload)
      ]_vars

\* the predicates evaluated before the daily cap that can deny in these builds
DeniedEarlier(matched) ==
    \E i \in DOMAIN matched :
        matched[i] \in {"cashbackSpentThreshold", "maxLifetimeRefundCount",
                        "refundWindowDays", "blockIfAlreadyRefunded", "maxRefundPercent"}

Matched(matched, name) == \E i \in DOMAIN matched : matched[i] = name

OrderUnresolved(b) == req[b].orderFailed \/ ~req[b].order

\* C19: a build whose target order is not resolved (the lookup failed or gave
\* no order, or no customer or no order was found for the phone) ends there
\* with OrderNotFound: it does not answer the generic 500, assembles no
\* context, and neither the gate nor the handler runs for the request.
C19_UnresolvedOrderFailsBuild ==
    [][ \A b \in Builds :
          /\ (req[b].pc = "order" /\ req'[b].pc # "order" /\ OrderUnresolved(b)')
                => req'[b].pc = "404"
          /\ (req'[b].pc \in {"history", "attempts", "assemble", "gate", "handler",
                              "handled", "403"})
                => req'[b].order
      ]_vars


-----------------------------------------------------------------------------
(* Further claims about the evaluator *)

\* C21: whenever the rules block already refunded orders and the target order
\* is already refunded, the decision is DENY and its matched list names
\* blockIfAlreadyRefunded, whatever the other fields of the context are and
\* also when an earlier predicate has denied.
C21_AlreadyRefundedAlwaysDenies ==
    (epc = "gated" /\ ectx.rules.blockIfAlreadyRefunded /\ ectx.meta.targetOrderAlreadyRefunded)
        => /\ eres.ruleDecision.outcome = "DENY"
           /\ Matched(eres.ruleDecision.matched, "blockIfAlreadyRefunded")

\* the refund window had denied before the already-refunded predicate fired
C21_Witness ==
    /\ epc = "gated"
    /\ ectx.rules.blockIfAlreadyRefunded
    /\ ectx.meta.targetOrderAlreadyRefunded
    /\ Matched(eres.ruleDecision.matched, "refundWindowDays")
    /\ Matched(eres.ruleDecision.matched, "blockIfAlreadyRefunded")
    /\ eres.ruleDecision.outcome = "DENY"

\* C22: every predicate name in the decision's matched list has an entry of
\* that name in the decision's limits.
C22_MatchedHaveLimits ==
    epc = "gated" =>
        \A i \in DOMAIN eres.ruleDecision.matched :
            eres.ruleDecision.matched[i] \in eres.ruleDecision.limits


-----------------------------------------------------------------------------
(* Claims about the ledger *)

\* the ledger rows of the customer
RowsOfCustomer(docs) == {s \in docs : s.customer = CustomerKey}

\* C23: when the external refund call of a request that passed the gate
\* fails (the handler answers 500), the ledger row of the customer is written:
\* the customer has a row afterwards and the ledger differs from before.
C23_FailureIsRecorded ==
    [][ \A r \in Requests :
          (req[r].pc = "handler" /\ req'[r].pc = "500")
              => /\ RowsOfCustomer(stats') # {}
                 /\ stats' # stats
      ]_vars


Min(a, b) == IF a < b THEN a ELSE b

\* C24: in every reachable state each ledger row holds at most 25 attempt
\* records, and they are the most recent ones recorded for the row in the
\* order of their recording: a row with n recorded attempts holds the last
\* min(n, 25) of them, oldest first.
C24_AttemptsRingBuffer ==
    \A s \in stats :
        LET kept == Min(s.successCount, MaxEntries)
        IN  /\ Len(s.attempts) <= MaxEntries
            /\ s.attempts = [i \in 1..kept |-> started - kept + i]

\* more than 25 attempts were recorded for the customer and the oldest ones
\* are gone
C24_Witness ==
    \E s \in stats :
        /\ s.successCount > MaxEntries
        /\ Len(s.attempts) = MaxEntries
        /\ s.attempts[1] = s.successCount - MaxEntries + 1
        /\ s.attempts[MaxEntries] = s.successCount

\* C25: no step lowers a counter of the customer's ledger row or removes the
\* row, and the lifetimeRefundCount read for the customer never goes down.
C25_CountersNeverDecrease ==
    [][ /\ \A s \in RowsOfCustomer(stats) :
              \E t \in RowsOfCustomer(stats') :
                  /\ t.totalCount >= s.totalCount
                  /\ t.successCount >= s.successCount
                  /\ t.failureCount >= s.failureCount
        /\ req'.lifetimeRefundCount >= req.lifetimeRefundCount
      ]_vars


-----------------------------------------------------------------------------
(* Claims about the bulk preview *)

\* the mapper calls that have not settled
InFlight_(q) == {w \in DOMAIN q.workers : q.workers[w].pc \in {"mapper", "pending"}}

\* the bulk preview has answered with one result for every item
BulkCompleted ==
    /\ req.response = "200"
    /\ \A i \in DOMAIN req.items : req.results[i] # "empty"

\* C26: every bulk preview over at least one item eventually answers with
\* one result per item, whatever the items' builds and evaluations do.
C26_BulkPreviewCompletes ==
    (Len(req.items) >= 1) ~> BulkCompleted

\* C27: at most min(limit, items.length) mapper calls are in flight; an index
\* is claimed by at most one worker; the mapper is called at most maxRetries
\* times for an item and never again after it succeeded for it; the result of
\* an item is a value only after a success and an error only after
\* maxRetries calls; and when mapWithConcurrency returns, every index was
\* claimed once, the mapper ran for every item, and every item has its value
\* or its final error.
C27_MapWithConcurrency ==
    /\ Cardinality(InFlight_(req)) <= NumWorkers(req.items, req.limit)
    /\ \A i \in DOMAIN req.items :
          /\ Cardinality(req.claimed[i]) <= 1
          /\ req.calls[i] <= maxRetries
          /\ req.afterSuccess[i] = 0
          /\ req.results[i] = "error" => req.calls[i] = maxRetries
          /\ req.results[i] = "value" => req.calls[i] >= 1
    /\ req.response = "200" =>
          \A i \in DOMAIN req.items :
              /\ Cardinality(req.claimed[i]) = 1
              /\ req.calls[i] >= 1
              /\ req.results[i] \in {"value", "error"}

\* a call with more items than workers has returned; one item needed all its
\* attempts and has its error, another one succeeded on a retry
C27_Witness ==
    /\ req.response = "200"
    /\ Len(req.items) > req.limit
    /\ \E i, j \in DOMAIN req.items :
          /\ req.results[i] = "error" /\ req.calls[i] = maxRetries
          /\ req.results[j] = "value" /\ req.calls[j] = 2


-----------------------------------------------------------------------------
(* Further claims about the resolution of pending refunds *)

-----------------------------------------------------------------------------
(* Claims about the executed amount *)

\* C29: under enforced rules with maxRefundPercent = M, a refund executed for
\* a request that is not a partial refund with the bypass on has an amount of
\* at most M percent of the order total.
C29_ExecutedWithinPercentCap ==
    (req.pc = "200" /\ ~(isPartial(ectx) /\ bypass(ectx))) =>
        \A x \in shopRefunds :
            x.amount * 100 <= ectx.rules.maxRefundPercent * req.total


-----------------------------------------------------------------------------
(* Claims about the normalization of rule payloads *)

\* the fields normalizeRules can write
AllowListed == PayloadFields \ {"cashbackSpentThreshold"}
InRange(v, lo, hi) == v = Null \/ (lo <= v /\ v <= hi)

\* C30: the normalized payload has allow-listed fields only, its percents in
\* [0,100], its counts at least 0, and in allowPaymentMethods only trimmed,
\* non-empty entries, whether the list came as an array or as a string.
C30_NormalizedPayload ==
    req.pc \in {"normalized", "stored"} =>
        /\ DOMAIN req.out \subseteq AllowListed
        /\ InRange(req.out.maxRefundPercent, 0, 100)
        /\ InRange(req.out.requireSupervisorAbovePercent, 0, 100)
        /\ InRange(req.out.maxRefundsPerDay, 0, MAX_SAFE_INTEGER)
        /\ InRange(req.out.refundWindowDays, 0, MAX_SAFE_INTEGER)
        /\ InRange(req.out.maxLifetimeRefundCount, 0, MAX_SAFE_INTEGER)
        /\ \A i \in DOMAIN req.out.allowPaymentMethods.items :
              /\ req.out.allowPaymentMethods.items[i] # <<>>
              /\ TrimWs(req.out.allowPaymentMethods.items[i]) = req.out.allowPaymentMethods.items[i]

====
